---- MODULE Spec2Model ----
(***************************************************************************)
(* Share Your Files: a model of one SYFFT file-transfer session, i.e. one  *)
(* SyfftProtocolSender talking to one SyfftProtocolReceiver over a TCP     *)
(* connection.  Each protocol instance is a record holding the members of  *)
(* the class; every slot, handler and posted lambda of the classes is one  *)
(* action.  The Qt socket is modelled by its state, its read buffer and    *)
(* the bytes in flight; the file system, the user and the network are the  *)
(* environment.                                                            *)
(***************************************************************************)
EXTENDS Integers, Sequences, FiniteSets, TLC

(***************************************************************************)
(* Bounds of the model.                                                    *)
(***************************************************************************)
MaxFiles == 1
MaxEvents == 1
MaxItems == 2
MaxChunks == 3

(***************************************************************************)
(* Program constants.                                                      *)
(***************************************************************************)
MAX_CHUNK_SIZE == 8192
INT_MAX == 2147483647

(* The quint32 members are held as 32-bit two's complement numbers, so     *)
(* that 0xFFFFFFFF is -1: sums and differences are then the ones of the    *)
(* integers (no member comes near 2^31 here) and only the unsigned         *)
(* comparison differs.                                                     *)
CUR_NONE == -1

ULess(a, b) == IF (a < 0) = (b < 0) THEN a < b ELSE b < 0

Sides == {"S", "R"}
Peer(p) == IF p = "S" THEN "R" ELSE "S"

LOCAL_UUID_S == 2
LOCAL_UUID_R == 1
UNKNOWN_UUID == 0

(* The UUID of a user that is not at the address the sender connects to. *)
OTHER_UUID == 3

(* QUuid::toRfc4122 and QUuid::fromRfc4122 followed by toString.  The     *)
(* sixteen bytes of a UUID are held as its number, those of the null UUID *)
(* as 0: a string that is no UUID gives the null UUID, and the string     *)
(* made from sixteen bytes is never "Unknown".                            *)
NULL_UUID == 4

toRfc4122(uuid) == IF uuid \in {UNKNOWN_UUID, NULL_UUID} THEN 0 ELSE uuid

fromRfc4122(bytes) == IF bytes = 0 THEN NULL_UUID ELSE bytes

Status == {"New", "Connecting", "Connected", "InTransfer",
           "TransferCompleted", "Closing", "Closed", "Aborted",
           "PausedByUser", "PausedByPeer"}

FileStatus == {"Scheduled", "InTransfer", "Transferred",
               "TransferRejected", "TransferFailed"}

(* The m_status of a FileInfo built by the default constructor and filled *)
(* by operator>>: no code has given it a value, it may read as any.       *)
Indeterminate == "Indeterminate"

DuplicatedFileAction == {"Ask", "Replace", "Keep", "KeepBoth"}

Command == {"ABORT", "CLOSE", "HELLO", "ACK", "SHARE", "ITEM", "START",
            "SKIP", "CHUNK", "ACCEPT", "REJECT", "COMMIT", "ROLLBK",
            "STOP", "PAUSE", "UNKNOWN"}

(* A command on the wire: the command byte and its payload (two numbers  *)
(* and the path of a file).                                               *)
Cmd(c) == [c |-> c, a |-> 0, b |-> 0, path |-> ""]
Cmd1(c, a) == [c |-> c, a |-> a, b |-> 0, path |-> ""]
Cmd2(c, a, b) == [c |-> c, a |-> a, b |-> b, path |-> ""]
Item(size, path) == [c |-> "ITEM", a |-> size, b |-> 0, path |-> path]

(* The outcomes of the file system an action can meet. *)
Oracle == {"ok", "readerError", "readFail", "readerChanged", "writerError",
           "exists", "writeFail", "writerCommitFail", "noFreeName",
           "badPath"}

(* A file is empty or takes two chunks. *)
FileSizes == {0, 2 * MAX_CHUNK_SIZE}

NoFile == [present |-> FALSE]

Min(a, b) == IF a < b THEN a ELSE b

(* The sizes and the counters of bytes are quint64.  The model holds them *)
(* with the 34 high bits dropped: the sizes it knows are 0, one or two    *)
(* chunks and half the range, and only the sum of two halves goes round.  *)
U64 == 1073741824

RECURSIVE SumSizes(_)
SumSizes(fs) ==
    IF fs = <<>> THEN 0 ELSE (Head(fs).size + SumSizes(Tail(fs))) % U64

(* The path of the files the sender lists, and QDir::cleanPath,           *)
(* QString::startsWith("../") and QFileInfo::isRelative on the paths the  *)
(* model knows.                                                           *)
FilePath == "dir/file"

cleanPath(path) ==
    CASE path = "dir//file" -> "dir/file"
      [] path = "dir/../file" -> "file"
      [] OTHER -> path

startsWithDotDot(path) == path = "../file"

isRelative(path) == path # "/dir/file"

(* The name the base path joined with the path resolves to is a          *)
(* directory: the parent of the base path for "..", the base path for "". *)
isDir(path) == path \in {"..", ""}

(* The name the base path joined with the path resolves to lies in the    *)
(* base path.                                                             *)
Inside(path) == path \notin {"..", "../file", "/dir/file"}

(* QFileInfo::path of a path, and QFileInfo::baseName and                 *)
(* QFileInfo::completeSuffix of its file name, on the paths the model     *)
(* knows: the name is cut at its first dot.                               *)
QFileInfo(path) ==
    CASE path = "a.txt" ->
             [path |-> ".", baseName |-> "a", completeSuffix |-> "txt"]
      [] path = ".bashrc" ->
             [path |-> ".", baseName |-> "", completeSuffix |-> "bashrc"]
      [] path = "archive.tar.gz" ->
             [path |-> ".", baseName |-> "archive",
              completeSuffix |-> "tar.gz"]
      [] OTHER ->
             [path |-> "dir", baseName |-> "file", completeSuffix |-> ""]

(* The width of the counter of performDFAction, a quint8. *)
UINT8 == 256

(* newPath with the counter after the extension. *)
newName_AfterExtension(name, ext, counter) ==
    IF name = "" THEN "." \o ext \o "_" \o ToString(counter)
    ELSE IF ext = "" THEN name \o "_" \o ToString(counter)
    ELSE name \o "." \o ext \o "_" \o ToString(counter)

(* The file name of the newPath performDFAction tries for the counter. *)
newName(name, ext, counter) ==
    IF name = "" THEN "." \o ext \o "_" \o ToString(counter)
    ELSE IF ext = "" THEN name \o "_" \o ToString(counter)
    ELSE name \o "_" \o ToString(counter) \o "." \o ext

(* QDir::cleanPath of newPath, the path of the file, a slash and the new  *)
(* name: the "./" in front of a file of the base path goes.               *)
newPath(filePath, counter) ==
    LET q == QFileInfo(filePath)
        name == newName(q.baseName, q.completeSuffix, counter)
    IN  IF q.path = "." THEN name ELSE q.path \o "/" \o name

(* FileInfo::valid of the instance operator>> fills from the stream. *)
valid(path) ==
    ~(path # cleanPath(path) \/ startsWithDotDot(path) \/ ~isRelative(path))

(* The SyfftProtocolSharingRequest and the SyfftProtocolDuplicatedFile the  *)
(* receiver handed to its user: none yet.                                  *)
NoObject == [alive |-> FALSE, m_chosen |-> FALSE]

NoObjects == [sharing |-> NoObject, duplicated |-> NoObject]

Front(s) == SubSeq(s, 1, Len(s) - 1)
Last(s) == s[Len(s)]

(***************************************************************************)
(* UserDiscovery: LocalUser, PeerUser and PeersList.  A datagram is a      *)
(* valid SyfdDatagram with no icon; addr stands for its address and its    *)
(* ports.                                                                  *)
(***************************************************************************)
AgeMax == 4

AgeUnconfirmed == 254

NO_NAME == "*** NO NAME ***"

Uuids == {"u1", "u2", "u3"}

(* The datagrams received, under the UUID the local user starts with or   *)
(* under another one: with the names of the local user, with other names  *)
(* and with no name, from two addresses; one datagram with the quit flag  *)
(* for each UUID.                                                         *)
SenderUuids == {"u1", "u2"}

Names == {<<"Ann", "Lee">>, <<"Bob", "Lee">>, <<"", "">>}

Datagram(uuid, flagQuit, names, addr) ==
    [uuid |-> uuid, flagQuit |-> flagQuit, firstName |-> names[1],
     lastName |-> names[2], addr |-> addr]

Datagrams ==
    {Datagram(uuid, FALSE, names, addr) :
         uuid \in SenderUuids, names \in Names, addr \in {1, 2}}
    \cup {Datagram(uuid, TRUE, <<"Bob", "Lee">>, 1) : uuid \in SenderUuids}

(* No PeerUser under the UUID. *)
NoPeer ==
    [known |-> FALSE, firstName |-> "", lastName |-> "", addr |-> 0,
     m_age |-> 0]

(* PeerUser::PeerUser from a datagram. *)
PeerUser(datagram) ==
    [known |-> TRUE,
     firstName |-> IF datagram.firstName = "" /\ datagram.lastName = ""
                   THEN NO_NAME ELSE datagram.firstName,
     lastName |-> datagram.lastName, addr |-> datagram.addr,
     m_age |-> 0]

unconfirmed(peer) == peer.m_age = AgeUnconfirmed

(* PeerUser::incrementAge expiring the instance when the age reaches     *)
(* AgeMax.                                                                *)
P_incrementAge_AtAgeMax(peer) ==
    IF peer.m_age = AgeUnconfirmed THEN [peer |-> peer, ret |-> FALSE]
    ELSE IF peer.m_age + 1 >= AgeMax
    THEN [peer |-> [peer EXCEPT !.m_age = AgeUnconfirmed], ret |-> TRUE]
    ELSE [peer |-> [peer EXCEPT !.m_age = @ + 1], ret |-> FALSE]

(* PeerUser::incrementAge, setUnconfirmed and update: the instance after  *)
(* the call and the value returned.                                       *)
P_incrementAge(peer) ==
    IF peer.m_age = AgeUnconfirmed THEN [peer |-> peer, ret |-> FALSE]
    ELSE IF peer.m_age + 1 > AgeMax
    THEN [peer |-> [peer EXCEPT !.m_age = AgeUnconfirmed], ret |-> TRUE]
    ELSE [peer |-> [peer EXCEPT !.m_age = @ + 1], ret |-> FALSE]

(* setUnconfirmed returning true whatever the age. *)
P_setUnconfirmed_Always(peer) ==
    [peer |-> [peer EXCEPT !.m_age = AgeUnconfirmed], ret |-> TRUE]

P_setUnconfirmed(peer) ==
    IF peer.m_age # AgeUnconfirmed
    THEN [peer |-> [peer EXCEPT !.m_age = AgeUnconfirmed], ret |-> TRUE]
    ELSE [peer |-> peer, ret |-> FALSE]

P_update(peer, datagram) ==
    [peer |-> [peer EXCEPT !.m_age = 0,
                           !.firstName = datagram.firstName,
                           !.lastName = datagram.lastName,
                           !.addr = datagram.addr],
     ret |-> \/ peer.m_age = AgeUnconfirmed
             \/ peer.firstName # datagram.firstName
             \/ peer.lastName # datagram.lastName
             \/ peer.addr # datagram.addr]

(* LocalUser::setMode; ok tells whether the server of the SYFFT protocol  *)
(* starts.  The user after the call and the signals emitted.              *)
setMode(me, mode, ok) ==
    IF me.m_mode = mode \/ (mode = "Online" /\ ~ok)
    THEN [me |-> me, signals |-> <<>>]
    ELSE [me |-> [me EXCEPT !.m_mode = mode],
          signals |-> <<<<"modeChanged", mode>>>>]

(* LocalUser::resetUuid changing the UUID in the mode it is called in.    *)
resetUuid_InPlace(me, new, ok) ==
    [me |-> [me EXCEPT !.uuid = new], signals |-> <<>>,
     resetIn |-> me.m_mode]

(* LocalUser::resetUuid; new is the first UUID QUuid::createUuid gives    *)
(* that is not among the used ones, and resetIn the mode the user is in   *)
(* when m_uuid is assigned.                                               *)
resetUuid(me, new, ok) ==
    LET off == setMode(me, "Offline", TRUE)
        back == setMode([off.me EXCEPT !.uuid = new], me.m_mode, ok)
    IN  [me |-> back.me, signals |-> off.signals \o back.signals,
         resetIn |-> off.me.m_mode]

(***************************************************************************)
(* PeersList.  m_instances gives the PeerUser of every UUID, NoPeer for a  *)
(* UUID it does not contain.                                               *)
(***************************************************************************)
Signal(name, uuid) == <<<<name, uuid>>>>

(* The check for a duplicated name comparing the last names only. *)
duplicatedName_LastName(me, peer, uuid) ==
    IF me.lastName = peer.lastName
    THEN Signal("duplicatedNameDetected", uuid)
    ELSE <<>>

(* The check of PeersList::update for a peer with the names of the local  *)
(* user.                                                                  *)
duplicatedName(me, peer, uuid) ==
    IF me.firstName = peer.firstName /\ me.lastName = peer.lastName
    THEN Signal("duplicatedNameDetected", uuid)
    ELSE <<>>

(* PeersList::update. *)
update(u, datagram, new, ok) ==
    LET uuid == datagram.uuid
        peer == u.m_instances[uuid]
        in == [u EXCEPT !.signals = <<>>, !.resetIn = "none",
                        !.input = [kind |-> "datagram", d |-> datagram]]
    IN  IF datagram.flagQuit
        THEN IF peer.known /\ P_setUnconfirmed(peer).ret
             THEN [in EXCEPT !.m_instances[uuid] =
                                 P_setUnconfirmed(peer).peer,
                             !.signals = Signal("peerExpired", uuid)]
             ELSE in
        ELSE IF peer.known
        THEN [in EXCEPT
                 !.m_instances[uuid] = P_update(peer, datagram).peer,
                 !.signals =
                     IF ~P_update(peer, datagram).ret THEN <<>>
                     ELSE Signal(IF unconfirmed(peer) THEN "peerAdded"
                                 ELSE "peerUpdated", uuid)
                          \o duplicatedName(u.me,
                                            P_update(peer, datagram).peer,
                                            uuid)]
        ELSE IF u.me.uuid = uuid
        THEN [in EXCEPT !.me = resetUuid(u.me, new, ok).me,
                        !.signals = resetUuid(u.me, new, ok).signals,
                        !.resetIn = resetUuid(u.me, new, ok).resetIn]
        ELSE [in EXCEPT
                 !.m_instances[uuid] = PeerUser(datagram),
                 !.signals = Signal("peerAdded", uuid)
                             \o duplicatedName(u.me, PeerUser(datagram),
                                               uuid)]

(* PeersList::incrementAge. *)
incrementAge(u) ==
    LET aged(uuid) == P_incrementAge(u.m_instances[uuid])
        expired(uuid) ==
            IF u.m_instances[uuid].known /\ aged(uuid).ret
            THEN Signal("peerExpired", uuid) ELSE <<>>
    IN  [u EXCEPT
            !.m_instances =
                [uuid \in Uuids |->
                     IF u.m_instances[uuid].known THEN aged(uuid).peer
                     ELSE NoPeer],
            !.signals = expired("u1") \o expired("u2") \o expired("u3"),
            !.resetIn = "none",
            !.input = [kind |-> "tick"]]

(* The LocalUser and the PeersList before any datagram: the local user is *)
(* Offline and no peer is known.  signals holds the signals the last      *)
(* handler emitted, input what it was given and resetIn the mode the      *)
(* local user was in when the handler changed its UUID.                   *)
NoUsers ==
    [me |-> [uuid |-> "u1", firstName |-> "Ann", lastName |-> "Lee",
             m_mode |-> "Offline"],
     m_instances |-> [uuid \in Uuids |-> NoPeer], signals |-> <<>>,
     resetIn |-> "none", input |-> [kind |-> "none"]]

VARIABLES snd, rcv, wire, eof, env, users, net

vars == <<snd, rcv, wire, eof, env, users, net>>

(***************************************************************************)
(* SyfdProtocol: the discovery protocol (UserDiscovery/syfdprotocol.cpp).  *)
(* log is the history of the handler that ran last: the signals emitted,   *)
(* the datagrams written, the timer calls and the assignments of m_mode,   *)
(* in the order of the code. oks holds the results writeDatagram will      *)
(* give. valid stands for m_datagram->valid(), which updateDatagram keeps  *)
(* equal to the buffer being non-empty.                                    *)
(***************************************************************************)
ERROR_THRESHOLD == 3

MaxWrites == 1

MaxFails == 4

NoSyfd ==
    [m_status |-> "Stopped", m_mode |-> "Offline", timer |-> FALSE,
     connected |-> FALSE, valid |-> FALSE, m_errorCount |-> 0,
     log |-> <<>>, oks |-> <<>>, fails |-> 0, row |-> 0,
     call |-> [name |-> "none", mode |-> "none", emitSignal |-> FALSE]]

Logged(p, entry) == [p EXCEPT !.log = Append(@, entry)]

RECURSIVE D_setMode(_, _, _)
RECURSIVE D_sendDatagram(_, _)
RECURSIVE D_sendQuitDatagram(_)

(* sendDatagram leaving the count of errors as it is after a write that   *)
(* succeeded.                                                              *)
D_sendDatagram_NoReset(p, quit) ==
    LET ok == Head(p.oks)
        p1 == Logged([p EXCEPT !.oks = Tail(@)], <<"write", quit, ok>>)
    IN  IF ~ok
        THEN LET p2 == [p1 EXCEPT !.m_errorCount = @ + 1]
             IN  IF p2.m_errorCount = ERROR_THRESHOLD
                 THEN Logged(D_setMode(p2, "Offline", TRUE), <<"error">>)
                 ELSE p2
        ELSE p1

(* SyfdProtocol::sendDatagram; quit tells the flag of the datagram. *)
D_sendDatagram(p, quit) ==
    LET ok == Head(p.oks)
        p1 == Logged([p EXCEPT !.oks = Tail(@)], <<"write", quit, ok>>)
    IN  IF ~ok
        THEN LET p2 == [p1 EXCEPT !.m_errorCount = @ + 1]
             IN  IF p2.m_errorCount = ERROR_THRESHOLD
                 THEN Logged(D_setMode(p2, "Offline", TRUE), <<"error">>)
                 ELSE p2
        ELSE [p1 EXCEPT !.m_errorCount = 0]

(* sendQuitDatagram sending nothing. *)
D_sendQuitDatagram_Never(p) == p

(* SyfdProtocol::sendQuitDatagram *)
D_sendQuitDatagram(p) ==
    IF p.valid /\ p.m_errorCount < ERROR_THRESHOLD
    THEN Logged(D_sendDatagram(p, TRUE), <<"flush">>)
    ELSE p

(* SyfdProtocol::setMode: a stopped protocol logs an error and goes on. *)
D_setMode(p, mode, emitSignal) ==
    IF p.m_mode = mode THEN p
    ELSE IF mode = "Online" /\ ~p.valid
    THEN Logged(p, <<"modeChanged", "Offline">>)
    ELSE LET p1 == IF mode = "Online"
                   THEN Logged([p EXCEPT !.timer = TRUE], <<"timerStart">>)
                   ELSE Logged([D_sendQuitDatagram(p) EXCEPT
                                    !.timer = FALSE], <<"timerStop">>)
             p2 == Logged([p1 EXCEPT !.m_errorCount = 0, !.m_mode = mode],
                          <<"mode", mode>>)
         IN  IF emitSignal THEN Logged(p2, <<"modeChanged", mode>>) ELSE p2

(* SyfdProtocol::updateDatagram *)
D_updateDatagram(p, ok) == [p EXCEPT !.valid = ok]

(* SyfdProtocol::sendBufferedDatagram, the slot of the timer. *)
D_sendBufferedDatagram(p) ==
    IF p.valid THEN D_sendDatagram(p, FALSE)
    ELSE D_setMode(p, "Offline", TRUE)

(* SyfdProtocol::start *)
D_start(p, mode, ok) ==
    IF p.m_status = "Started" THEN p
    ELSE LET p1 == D_updateDatagram([p EXCEPT !.connected = TRUE], ok)
             p2 == Logged([p1 EXCEPT !.m_status = "Started"], <<"started">>)
             p3 == IF p2.m_mode = "Offline" THEN p2
                   ELSE Logged([p2 EXCEPT !.m_mode = "Offline"],
                               <<"mode", "Offline">>)
         IN  D_setMode(p3, mode, TRUE)

(* SyfdProtocol::stop *)
D_stop(p) ==
    IF p.m_status = "Stopped" THEN p
    ELSE Logged([D_setMode(p, "Offline", TRUE) EXCEPT
                     !.connected = FALSE, !.m_status = "Stopped"],
                <<"stopped">>)

(* The failed writes in a row after the log, n of them before it: a write  *)
(* that succeeds starts the count again, and with byMode an assignment of  *)
(* m_mode does too.                                                        *)
RECURSIVE Fails(_, _, _)
Fails(n, log, byMode) ==
    IF log = <<>> THEN n
    ELSE LET e == Head(log)
         IN  Fails(IF e[1] = "write" THEN (IF e[3] THEN 0 ELSE n + 1)
                   ELSE IF e[1] = "mode" /\ byMode THEN 0 ELSE n,
                   Tail(log), byMode)

(***************************************************************************)
(* SyfitProtocolClient: the client that requests the icon of a peer        *)
(* (UserDiscovery/syfitprotocol.cpp). m_buffer is the number of bytes it   *)
(* holds; fresh and stale count the single shot timers of manageError that *)
(* have not fired, set after and before the last change of the parameters; *)
(* k is the number of calls of manageError since that change and log the   *)
(* history of the handler that ran last. The constructor leaves            *)
(* m_retryTime and m_expectedLength unset; updateAndStart and              *)
(* startConnection assign them before anything reads them.                 *)
(***************************************************************************)
INITIAL_RETRY_TIME == 15000

ICON_MAX_SIZE_BYTES == 16384

SYFIT_INVALID_PORT == 65535

IconLen == 2

NoSyfit ==
    [m_serverAddress |-> 0, m_serverPort |-> 0, m_expectedHash |-> "",
     sock |-> "Unconnected", timer |-> FALSE, m_retryTime |-> 0,
     m_expectedLength |-> 0, m_buffer |-> 0, fresh |-> 0, stale |-> 0,
     k |-> 0, log |-> <<>>, deleted |-> FALSE]

(* m_retryTime *= 2 on an int: past INT_MAX the behaviour is undefined,    *)
(* the value wraps or the multiplication traps, as ub tells.               *)
Doubles(c, ub) ==
    IF /\ c.m_retryTime <= INT_MAX \div 2
       /\ c.m_retryTime >= -(INT_MAX \div 2) - 1
    THEN [c EXCEPT !.m_retryTime = 2 * @]
    ELSE IF ub = "wrap"
    THEN [c EXCEPT !.m_retryTime =
              IF @ > 0 THEN 2 * ((@ - INT_MAX) - 1)
              ELSE 2 * ((@ + INT_MAX) + 1)]
    ELSE [c EXCEPT !.deleted = TRUE,
                   !.log = Append(@, <<"trap", c.m_retryTime>>)]

(* SyfitProtocolClient::abortConnection *)
I_abortConnection(c) == [c EXCEPT !.timer = FALSE, !.sock = "Unconnected"]

(* SyfitProtocolClient::manageError: QTimer::singleShot starts no timer    *)
(* for a negative interval.                                                *)
I_manageError(c, ub) ==
    LET c1 == [I_abortConnection(c) EXCEPT
                   !.k = @ + 1,
                   !.log = Append(@, <<"manageError", c.k + 1>>)]
        c2 == IF c1.m_retryTime >= 0
              THEN [c1 EXCEPT !.fresh = @ + 1,
                              !.log = Append(@, <<"retry", c1.m_retryTime>>)]
              ELSE [c1 EXCEPT
                       !.log = Append(@, <<"refused", c1.m_retryTime>>)]
    IN  Doubles(c2, ub)

(* SyfitProtocolClient::startConnection: connectToHost on a socket that is *)
(* connecting or connected emits error(OperationError), whose slot is      *)
(* manageError.                                                            *)
I_startConnection(c, ub) ==
    LET c1 == [c EXCEPT !.m_expectedLength = 0, !.m_buffer = 0,
                        !.timer = TRUE,
                        !.log = Append(@, <<"startConnection", c.k>>)]
    IN  IF c1.sock \in {"Connecting", "Connected"}
        THEN I_manageError(c1, ub)
        ELSE [c1 EXCEPT !.sock = "Connecting"]

(* SyfitProtocolClient::updateAndStart *)
I_updateAndStart(c, params, ub) ==
    IF /\ c.m_serverAddress = params.addr
       /\ c.m_serverPort = params.port
       /\ c.m_expectedHash = params.hash
    THEN c
    ELSE LET c1 == [c EXCEPT !.m_serverAddress = params.addr,
                             !.m_serverPort = params.port,
                             !.m_expectedHash = params.hash,
                             !.m_retryTime = INITIAL_RETRY_TIME,
                             !.k = 0, !.stale = @ + c.fresh, !.fresh = 0]
             c2 == I_abortConnection(c1)
         IN  IF c2.m_serverPort # SYFIT_INVALID_PORT
             THEN I_startConnection(c2, ub)
             ELSE c2

(* SyfitProtocolClient::readData with the socket holding the length        *)
(* header (-1: not all of its four bytes yet) and data bytes of the icon,  *)
(* which UserIcon accepts if good.                                         *)
I_readData(c, header, data, good, ub) ==
    LET read == c.m_expectedLength = 0
        c1 == IF read /\ header >= 0
              THEN [c EXCEPT !.m_expectedLength = header] ELSE c
        take == IF data < c1.m_expectedLength - c1.m_buffer THEN data
                ELSE c1.m_expectedLength - c1.m_buffer
        c2 == [c1 EXCEPT !.m_buffer = @ + take]
        c3 == [c2 EXCEPT !.timer = FALSE, !.sock = "Unconnected"]
    IN  IF read /\ header < 0 THEN c
        ELSE IF read /\ c1.m_expectedLength > ICON_MAX_SIZE_BYTES
        THEN I_manageError(c1, ub)
        ELSE IF c2.m_buffer # c2.m_expectedLength THEN c2
        ELSE IF good
        THEN [c3 EXCEPT !.log = Append(@, <<"finished", c3.m_buffer>>)]
        ELSE I_manageError(c3, ub)

(***************************************************************************)
(* ShareYourFiles: the network entry in use and the protocols bound to it  *)
(* (shareyourfiles.cpp). An entry is the IPv4 address of its pair, 0 the   *)
(* InvalidEntry. inst tells of m_syfdInstance: none, the instance running  *)
(* on the entry bound, or an instance that failed to initialise and waits  *)
(* for its deleteLater. addr and mode are those of the LocalUser, whose    *)
(* servers run while it is Online. log is the history of the handler that  *)
(* ran last.                                                               *)
(***************************************************************************)
InvalidEntry == 0

NoDaemon ==
    [m_entries |-> <<>>, current |-> InvalidEntry, inst |-> "none",
     bound |-> InvalidEntry, addr |-> 0, mode |-> "Offline",
     hung |-> FALSE, reads |-> <<>>, log |-> <<>>]

Contains(list, e) == \E i \in 1..Len(list) : list[i] = e

(* LocalUser::setMode; srv tells whether the server of the file transfers  *)
(* can be started.                                                         *)
N_setMode(d, mode, srv) ==
    IF d.mode = mode \/ (mode = "Online" /\ ~srv) THEN d
    ELSE [d EXCEPT !.mode = mode,
                   !.log = Append(@, <<"modeChanged", mode>>)]

(* LocalUser::updateLocalAddress *)
N_updateLocalAddress(d, ipv4Address, srv) ==
    IF ipv4Address = d.addr THEN d
    ELSE LET d1 == [N_setMode(d, "Offline", srv) EXCEPT
                        !.addr = ipv4Address]
         IN  IF ipv4Address # 0 THEN N_setMode(d1, d.mode, srv) ELSE d1

(* ShareYourFiles::initSYFDProtocol; ok tells whether the sockets of the   *)
(* new SyfdProtocol could be bound to the entry.                           *)
N_initSYFDProtocol(d, ok) ==
    IF ok THEN [d EXCEPT !.inst = "running", !.bound = d.current]
    ELSE [d EXCEPT !.inst = "invalid", !.bound = InvalidEntry]

(* The protocol is stopped through a BlockingQueuedConnection and deleted; *)
(* an instance that failed to initialise still lives in the calling        *)
(* thread, where the blocking call never returns.                          *)
N_stopInstance(d) ==
    IF d.inst = "none" THEN d
    ELSE IF d.inst = "invalid" THEN [d EXCEPT !.hung = TRUE]
    ELSE [d EXCEPT !.inst = "none", !.bound = InvalidEntry,
                   !.log = Append(@, <<"stopped", d.bound>>)]

RECURSIVE N_networkEntriesListUpdated(_, _, _)
RECURSIVE N_updateEntries(_, _, _)

(* NetworkEntriesList::updateEntries; reads holds what buildEntriesList    *)
(* gives at this call and at the ones after it, the cached list once reads *)
(* is used up.                                                             *)
N_updateEntries(d, ok, srv) ==
    IF d.reads = <<>> THEN d
    ELSE LET d1 == [d EXCEPT !.reads = Tail(@)]
         IN  IF Head(d.reads) = d.m_entries THEN d1
             ELSE N_networkEntriesListUpdated(
                      [d1 EXCEPT !.m_entries = Head(d.reads),
                                 !.log = Append(@,
                                     <<"networkInterfacesChanged",
                                       Len(Head(d.reads))>>)],
                      ok, srv)

(* ShareYourFiles::networkEntriesListUpdated: entries() updates the list   *)
(* before it returns it.                                                   *)
N_networkEntriesListUpdated(d, ok, srv) ==
    LET d0 == N_updateEntries(d, ok, srv)
        entries == d0.m_entries
        d1 == N_stopInstance([d0 EXCEPT !.current = InvalidEntry])
        d2 == N_updateLocalAddress(d1, 0, srv)
        d3 == N_updateLocalAddress([d2 EXCEPT !.current = entries[1]],
                                   entries[1], srv)
        d4 == N_initSYFDProtocol(d3, ok)
    IN  IF d0.hung \/ Contains(entries, d0.current) THEN d0
        ELSE IF d1.hung THEN d1
        ELSE IF entries = <<>>
        THEN [d2 EXCEPT !.log = Append(@, <<"networkEntryChanged",
                                            InvalidEntry>>)]
        ELSE IF ok
        THEN [d4 EXCEPT !.log = Append(@, <<"networkEntryChanged",
                                            d4.current>>)]
        ELSE N_updateEntries(d4, ok, srv)

(* The state of the network side of the daemon outside a session. *)
NoNet == [syfd |-> NoSyfd, syfit |-> NoSyfit, daemon |-> NoDaemon]

(***************************************************************************)
(* FileInTransfer, FileInTransferReader, FileInTransferWriter.             *)
(***************************************************************************)
(* dest is what the name of the file holds: "old" for the file that was   *)
(* there when the instance was built, "absent" for none, "new" for the     *)
(* file received whole and "partial" for a part of it.                     *)
FileInTransfer(size, error, exists) ==
    [present |-> TRUE, error |-> error, exists |-> exists,
     remainingBytes |-> size, transferStarted |-> FALSE,
     committed |-> FALSE, rollbacked |-> FALSE,
     dest |-> IF exists THEN "old" ELSE "absent"]

FileInTransferReader(size, o) ==
    FileInTransfer(size, o = "readerError", TRUE)

(* QSaveFile::open fails on the name of a directory. *)
FileInTransferWriter(path, size, o) ==
    FileInTransfer(size, o = "writerError" \/ isDir(path),
                   o = "exists" \/ isDir(path))

transferCompleted(f) == f.committed \/ f.rollbacked

Rollback(f) ==
    IF f.committed THEN f
    ELSE [f EXCEPT !.rollbacked = TRUE, !.error = TRUE]

ReaderChunkOk(f, o) ==
    ~f.error /\ f.remainingBytes # 0 /\ o # "readFail"

ReaderProcessNextDataChunk(f, o) ==
    IF ReaderChunkOk(f, o)
    THEN [f EXCEPT !.transferStarted = TRUE,
                   !.remainingBytes = @ - Min(@, MAX_CHUNK_SIZE)]
    ELSE [f EXCEPT !.transferStarted = TRUE, !.error = TRUE]

ReaderCommitOk(f, o) ==
    f.committed \/ (~f.error /\ f.remainingBytes = 0 /\ o # "readerChanged")

ReaderCommit(f, o) ==
    LET g == [f EXCEPT !.transferStarted = TRUE]
    IN  IF g.committed THEN g
        ELSE IF ReaderCommitOk(g, o) THEN [g EXCEPT !.committed = TRUE]
        ELSE Rollback(g)

WriterChunkOk(f, len, o) ==
    ~f.error /\ f.remainingBytes >= len /\ o # "writeFail"

(* processNextDataChunk of a writer whose m_file is a QFile: the bytes go  *)
(* to the name of the file.                                               *)
WriterProcessNextDataChunk_InPlace(f, len, o) ==
    IF WriterChunkOk(f, len, o)
    THEN [f EXCEPT !.transferStarted = TRUE, !.remainingBytes = @ - len,
                   !.dest = IF len = 0 THEN @ ELSE "partial"]
    ELSE [f EXCEPT !.transferStarted = TRUE, !.error = TRUE]

(* m_file is a QSaveFile: the bytes go to a temporary file, which commit  *)
(* renames to the name of the file and which is removed otherwise.        *)
WriterProcessNextDataChunk(f, len, o) ==
    IF WriterChunkOk(f, len, o)
    THEN [f EXCEPT !.transferStarted = TRUE, !.remainingBytes = @ - len]
    ELSE [f EXCEPT !.transferStarted = TRUE, !.error = TRUE]

WriterCommitOk(f, o) ==
    f.committed \/
    (~f.error /\ f.remainingBytes = 0 /\ o # "writerCommitFail")

WriterCommit(f, o) ==
    LET g == [f EXCEPT !.transferStarted = TRUE]
    IN  IF g.committed THEN g
        ELSE IF WriterCommitOk(g, o)
        THEN [g EXCEPT !.committed = TRUE, !.dest = "new"]
        ELSE Rollback(g)

(***************************************************************************)
(* SyfftProtocolCommon.                                                    *)
(***************************************************************************)
Common(sock) ==
    [status |-> "New", oldStatusStack |-> <<>>,
     preventUserTogglePause |-> FALSE, currentFile |-> CUR_NONE,
     files |-> <<>>, totalFiles |-> 0, transferredFiles |-> 0,
     skippedFiles |-> 0, totalBytes |-> 0, transferredBytes |-> 0,
     skippedBytes |-> 0, fileInTransfer |-> NoFile,
     sock |-> sock, inbuf |-> <<>>, wr |-> <<>>,
     posted |-> <<>>,
     go |-> TRUE, wroteAfterAbort |-> FALSE, ranAfterAbort |-> FALSE,
     abortWrittenIn |-> "none", handledInPause |-> FALSE,
     inFlightAtAbort |-> FALSE, userHolds |-> FALSE, peerHolds |-> FALSE,
     unexpPre |-> "none", unexpOther |-> FALSE,
     sentInPeerPause |-> FALSE, stopsSent |-> 0]

(* operator<< on the data stream of the socket: the bytes are buffered    *)
(* unless the socket is unconnected.                                      *)
Write(s, c) ==
    IF s.sock \in {"Connected", "Closing"}
    THEN [s EXCEPT !.wr = Append(@, c)]
    ELSE s

(* m_fileInTransfer.reset(): the instance is destroyed, and disk keeps    *)
(* what it leaves at the name of the file of the receiver.                *)
reset(s) ==
    IF s.role = "R" /\ s.fileInTransfer.present
    THEN [s EXCEPT !.disk[s.currentFile + 1] = s.fileInTransfer.dest,
                   !.fileInTransfer = NoFile]
    ELSE [s EXCEPT !.fileInTransfer = NoFile]

remainingFiles(s) ==
    s.totalFiles - s.transferredFiles - s.skippedFiles

remainingBytes(s) ==
    s.totalBytes - s.transferredBytes - s.skippedBytes

SetFileStatus(s, st) ==
    [s EXCEPT !.files[s.currentFile + 1].status = st]

(* The handler of QTcpSocket::disconnected. *)
Disconnected(s) ==
    IF s.status = "Closing" THEN [s EXCEPT !.status = "Closed"] ELSE s

closeConnection(s) ==
    IF s.status \in {"New", "Closing", "Closed", "Aborted"} THEN s
    ELSE LET s1 == [s EXCEPT !.status = "Closing"]
         IN  IF s1.sock = "Unconnected" THEN Disconnected(s1)
             ELSE IF s1.sock = "Connected"
                  THEN [Write(s1, Cmd("CLOSE")) EXCEPT !.sock = "Closing"]
                  ELSE [s1 EXCEPT !.sock = "Closing"]

(* abortConnection without the update of the skipped counters. *)
abortConnection_KeepCounters(s) ==
    IF s.status \in {"New", "Closed", "Aborted"} THEN s
    ELSE LET s1 == [s EXCEPT !.status = "Aborted",
                             !.inFlightAtAbort = s.fileInTransfer.present]
             s2 == IF ULess(s1.currentFile, s1.totalFiles)
                   THEN SetFileStatus(s1, "TransferFailed")
                   ELSE s1
             s3 == reset(s2)
             s4 == IF s3.sock = "Connected"
                   THEN [Write(s3, Cmd("ABORT")) EXCEPT
                            !.abortWrittenIn = s3.status]
                   ELSE s3
         IN  [s4 EXCEPT !.sock = "Unconnected", !.inbuf = <<>>,
                        !.go = FALSE]

(* abortConnection writing ABORT first and changing the status afterwards. *)
abortConnection_WriteFirst(s) ==
    IF s.status \in {"New", "Closed", "Aborted"} THEN s
    ELSE LET s0 == IF s.sock = "Connected"
                   THEN [Write(s, Cmd("ABORT")) EXCEPT
                            !.abortWrittenIn = s.status]
                   ELSE s
             s1 == [s0 EXCEPT !.status = "Aborted",
                              !.inFlightAtAbort = s.fileInTransfer.present,
                              !.skippedFiles = @ + remainingFiles(s),
                              !.skippedBytes = @ + remainingBytes(s)]
             s2 == IF ULess(s1.currentFile, s1.totalFiles)
                   THEN SetFileStatus(s1, "TransferFailed")
                   ELSE s1
         IN  [reset(s2) EXCEPT !.sock = "Unconnected", !.inbuf = <<>>,
                               !.go = FALSE]

abortConnection(s) ==
    IF s.status \in {"New", "Closed", "Aborted"} THEN s
    ELSE LET s1 == [s EXCEPT !.status = "Aborted",
                             !.inFlightAtAbort = s.fileInTransfer.present,
                             !.skippedFiles = @ + remainingFiles(s),
                             !.skippedBytes = @ + remainingBytes(s)]
             s2 == IF ULess(s1.currentFile, s1.totalFiles)
                   THEN SetFileStatus(s1, "TransferFailed")
                   ELSE s1
             s3 == reset(s2)
             s4 == IF s3.sock = "Connected"
                   THEN [Write(s3, Cmd("ABORT")) EXCEPT
                            !.abortWrittenIn = s3.status]
                   ELSE s3
         IN  [s4 EXCEPT !.sock = "Unconnected", !.inbuf = <<>>,
                        !.go = FALSE]

(* manageError only logging the error. *)
manageError_LogOnly(s) == [s EXCEPT !.go = FALSE]

manageError(s) == [abortConnection(s) EXCEPT !.go = FALSE]

(* QTimer::singleShot(0, ...): the event is queued.  An event equal to the   *)
(* last one queued is not queued again: the handlers of both events, run   *)
(* twice in a row, do what they do run once.                               *)
Post(s, e) ==
    IF s.posted # <<>> /\ Last(s.posted) = e THEN s
    ELSE [s EXCEPT !.posted = Append(@, e)]

(* togglePauseMode never writing PAUSE to the socket. *)
togglePauseMode_Silent(s, userRequested) ==
    IF s.status \in {"New", "Aborted", "Closing", "Closed"} THEN s
    ELSE IF userRequested /\ s.preventUserTogglePause THEN s
    ELSE LET pauseStatus == IF userRequested THEN "PausedByUser"
                            ELSE "PausedByPeer"
             s1 == IF userRequested
                   THEN [s EXCEPT !.userHolds = ~@]
                   ELSE [s EXCEPT !.peerHolds = ~@]
         IN  IF s1.status = pauseStatus
             THEN IF s1.oldStatusStack = <<>> THEN s1
                  ELSE Post([s1 EXCEPT !.status = Last(s1.oldStatusStack),
                                       !.oldStatusStack = Front(@)],
                            "readyRead")
             ELSE [s1 EXCEPT !.oldStatusStack = Append(@, s1.status),
                             !.status = pauseStatus]

togglePauseMode(s, userRequested) ==
    IF s.status \in {"New", "Aborted", "Closing", "Closed"} THEN s
    ELSE IF userRequested /\ s.preventUserTogglePause THEN s
    ELSE LET pauseStatus == IF userRequested THEN "PausedByUser"
                            ELSE "PausedByPeer"
             s0 == IF userRequested
                   THEN [s EXCEPT !.userHolds = ~@]
                   ELSE [s EXCEPT !.peerHolds = ~@]
             s1 == IF userRequested /\ s.sock = "Connected"
                   THEN Write(s0, Cmd("PAUSE")) ELSE s0
         IN  IF s1.status = pauseStatus
             THEN IF s1.oldStatusStack = <<>> THEN s1
                  ELSE Post([s1 EXCEPT !.status = Last(s1.oldStatusStack),
                                       !.oldStatusStack = Front(@)],
                            "readyRead")
             ELSE [s1 EXCEPT !.oldStatusStack = Append(@, s1.status),
                             !.status = pauseStatus]

moveToNextFile(s) ==
    LET s1 == [s EXCEPT !.currentFile = @ + 1]
    IN  IF s1.currentFile = s1.totalFiles
        THEN closeConnection([s1 EXCEPT !.status = "TransferCompleted"])
        ELSE s1

(***************************************************************************)
(* SyfftProtocolReceiver.                                                  *)
(***************************************************************************)
Receiver ==
    [role |-> "R", localUuid |-> LOCAL_UUID_R, peerUuid |-> UNKNOWN_UUID,
     shareMsgSet |-> FALSE, defaultDFAction |-> "Ask",
     request |-> "none", decided |-> FALSE, askStatus |-> "none",
     askPauses |-> 0, askSock |-> "none", disk |-> <<>>,
     taken |-> {}, locked |-> {}, orig |-> "none"]
    @@ Common("Connected")

CurSize(s) == s.files[s.currentFile + 1].size

CurPath(s) == s.files[s.currentFile + 1].path

acceptFileTransfer(s) ==
    SetFileStatus(Write(s, Cmd("ACCEPT")), "InTransfer")

rejectFileTransfer(s) ==
    LET s1 == SetFileStatus(reset(Write(s, Cmd("REJECT"))),
                            "TransferRejected")
    IN  moveToNextFile([s1 EXCEPT !.skippedFiles = @ + 1,
                                  !.skippedBytes = @ + CurSize(s1)])

(* The FileInTransferWriter performDFAction builds on the path it tries   *)
(* for the counter.  taken holds the paths that exist in the base path    *)
(* and locked those QSaveFile::open fails on, the directories and the     *)
(* files that cannot be written; the outcome "noFreeName" stands for a    *)
(* base path where every path tried exists.                               *)
newFileWriter(s, o, counter) ==
    FileInTransfer(CurSize(s),
                   o = "writerError"
                       \/ newPath(CurPath(s), counter) \in s.locked,
                   o = "noFreeName"
                       \/ newPath(CurPath(s), counter) \in s.taken)

(* The counters at which the loop of performDFAction stops when it gets  *)
(* to them: the writer of the path failed, or the path does not exist.    *)
stops(s, o) ==
    {counter \in 1..(UINT8 - 1) :
         \/ newFileWriter(s, o, counter).error
         \/ ~newFileWriter(s, o, counter).exists}

(* The loop of performDFAction, whose counter goes from 1 up and is 0     *)
(* after UINT8 - 1: the counter of the path it accepts, and 0 when it     *)
(* ends with none, at a writer that failed or at the counter 0.           *)
first(set) == CHOOSE counter \in set : \A c \in set : counter <= c

uniqueSuffix(s, o) ==
    IF stops(s, o) = {} THEN 0
    ELSE IF newFileWriter(s, o, first(stops(s, o))).error THEN 0
    ELSE first(stops(s, o))

(* The end of performDFAction for the counter the loop ended with; orig  *)
(* keeps what the writer of the path the peer gave leaves there when the  *)
(* new writer takes its place.                                            *)
acceptNewPath(s, o, counter) ==
    IF counter = 0 THEN rejectFileTransfer(s)
    ELSE acceptFileTransfer(
            [s EXCEPT !.files[s.currentFile + 1] =
                          [size |-> CurSize(s), status |-> "Scheduled",
                           path |-> newPath(CurPath(s), counter)],
                      !.fileInTransfer = newFileWriter(s, o, counter),
                      !.orig = s.fileInTransfer.dest])

performDFAction(s, action, o) ==
    IF action = "Replace" THEN acceptFileTransfer(s)
    ELSE IF action = "Keep" THEN rejectFileTransfer(s)
    ELSE acceptNewPath(s, o, uniqueSuffix(s, o))

R_helloCommand(s, c) ==
    IF s.status # "Connecting" \/ s.peerUuid # UNKNOWN_UUID
    THEN manageError(s)
    ELSE IF s.sock \notin {"Connected", "Closing"}
         THEN manageError([s EXCEPT !.peerUuid = fromRfc4122(c.a)])
         ELSE Write([s EXCEPT !.peerUuid = fromRfc4122(c.a)],
                    Cmd1("HELLO", toRfc4122(s.localUuid)))

R_ackCommand(s) ==
    IF s.status # "Connecting" \/ s.peerUuid = UNKNOWN_UUID
    THEN manageError(s)
    ELSE [s EXCEPT !.status = "Connected"]

R_shareCommand(s, c) ==
    IF s.status = "Connected" /\ s.totalFiles = 0 /\ ~s.shareMsgSet
    THEN IF ~ULess(c.a, INT_MAX) THEN manageError(s)
         ELSE [s EXCEPT !.totalFiles = c.a, !.totalBytes = c.b,
                        !.shareMsgSet = TRUE]
    ELSE IF s.status = "Connected" /\ Len(s.files) = s.totalFiles
            /\ s.shareMsgSet
    THEN IF SumSizes(s.files) # s.totalBytes
         THEN manageError([s EXCEPT !.files = <<>>])
         ELSE LET s1 == togglePauseMode(s, TRUE)
              IN  [s1 EXCEPT !.preventUserTogglePause = TRUE,
                             !.request = "sharing",
                             !.askStatus = s1.status,
                             !.askSock = s.sock,
                             !.askPauses = Len(s1.wr) - Len(s.wr)]
    ELSE manageError(s)

(* itemCommand taking the FileInfo whatever its path. *)
R_itemCommand_AnyPath(s, c) ==
    IF s.status # "Connected" \/ ~ULess(Len(s.files), s.totalFiles)
    THEN manageError(s)
    ELSE [s EXCEPT !.files = Append(@, [size |-> c.a,
                                        status |-> Indeterminate,
                                        path |-> c.path]),
                   !.disk = Append(@, "untouched")]

R_itemCommand(s, c) ==
    IF s.status # "Connected" \/ ~ULess(Len(s.files), s.totalFiles)
    THEN manageError(s)
    ELSE IF ~valid(c.path) THEN manageError(s)
    ELSE [s EXCEPT !.files = Append(@, [size |-> c.a,
                                        status |-> Indeterminate,
                                        path |-> c.path]),
                   !.disk = Append(@, "untouched")]

R_startCommand(s, o) ==
    IF s.status # "InTransfer" \/ s.fileInTransfer.present
    THEN manageError(s)
    ELSE LET s1 == [s EXCEPT !.fileInTransfer =
                                 FileInTransferWriter(CurPath(s),
                                                      CurSize(s), o)]
         IN  IF s1.fileInTransfer.error THEN rejectFileTransfer(s1)
             ELSE IF ~s1.fileInTransfer.exists THEN acceptFileTransfer(s1)
             ELSE IF s1.defaultDFAction # "Ask"
                  THEN performDFAction(s1, s1.defaultDFAction, "ok")
             ELSE [togglePauseMode(s1, TRUE) EXCEPT
                      !.preventUserTogglePause = TRUE,
                      !.request = "duplicated", !.decided = FALSE]

(* skipCommand leaving the skipped bytes as they are. *)
R_skipCommand_SizeNotCounted(s) ==
    IF s.status # "InTransfer" \/ s.fileInTransfer.present
    THEN manageError(s)
    ELSE LET s1 == Write(s, Cmd("REJECT"))
             s2 == [s1 EXCEPT !.skippedFiles = @ + 1]
         IN  moveToNextFile(SetFileStatus(s2, "TransferFailed"))

R_skipCommand(s) ==
    IF s.status # "InTransfer" \/ s.fileInTransfer.present
    THEN manageError(s)
    ELSE LET s1 == Write(s, Cmd("REJECT"))
             s2 == [s1 EXCEPT !.skippedFiles = @ + 1,
                              !.skippedBytes = @ + CurSize(s1)]
         IN  moveToNextFile(SetFileStatus(s2, "TransferFailed"))

(* chunkCommand without the bound on the length of the chunk. *)
R_chunkCommand_AnyLength(s, c, o) ==
    IF s.status # "InTransfer" \/ ~s.fileInTransfer.present
    THEN manageError(s)
    ELSE IF WriterChunkOk(s.fileInTransfer, c.a, o)
    THEN [s EXCEPT !.fileInTransfer =
                       WriterProcessNextDataChunk(@, c.a, o),
                   !.transferredBytes = @ + c.a]
    ELSE LET f == WriterProcessNextDataChunk(s.fileInTransfer, c.a, o)
         IN  IF ~f.rollbacked
             THEN Write([s EXCEPT !.fileInTransfer = Rollback(f)],
                        Cmd("STOP"))
             ELSE [s EXCEPT !.fileInTransfer = f]

(* chunkCommand writing STOP at every chunk it cannot write. *)
R_chunkCommand_StopEveryTime(s, c, o) ==
    IF s.status # "InTransfer" \/ ~s.fileInTransfer.present
    THEN manageError(s)
    ELSE IF ULess(MAX_CHUNK_SIZE, c.a) THEN manageError(s)
    ELSE IF WriterChunkOk(s.fileInTransfer, c.a, o)
    THEN [s EXCEPT !.fileInTransfer =
                       WriterProcessNextDataChunk(@, c.a, o),
                   !.transferredBytes = @ + c.a]
    ELSE LET f == WriterProcessNextDataChunk(s.fileInTransfer, c.a, o)
         IN  Write([s EXCEPT !.fileInTransfer = Rollback(f)], Cmd("STOP"))

R_chunkCommand(s, c, o) ==
    IF s.status # "InTransfer" \/ ~s.fileInTransfer.present
    THEN manageError(s)
    ELSE IF ULess(MAX_CHUNK_SIZE, c.a) THEN manageError(s)
    ELSE IF WriterChunkOk(s.fileInTransfer, c.a, o)
    THEN [s EXCEPT !.fileInTransfer =
                       WriterProcessNextDataChunk(@, c.a, o),
                   !.transferredBytes = @ + c.a]
    ELSE LET f == WriterProcessNextDataChunk(s.fileInTransfer, c.a, o)
         IN  IF ~f.rollbacked
             THEN Write([s EXCEPT !.fileInTransfer = Rollback(f)],
                        Cmd("STOP"))
             ELSE [s EXCEPT !.fileInTransfer = f]

R_commitCommand(s, o) ==
    IF s.status # "InTransfer" \/ ~s.fileInTransfer.present
    THEN manageError(s)
    ELSE LET f == WriterCommit(s.fileInTransfer, o)
             s1 == IF WriterCommitOk(s.fileInTransfer, o)
                   THEN [SetFileStatus(Write(s, Cmd("COMMIT")),
                                       "Transferred") EXCEPT
                            !.transferredFiles = @ + 1]
                   ELSE [SetFileStatus(Write(s, Cmd("ROLLBK")),
                                       "TransferFailed") EXCEPT
                            !.skippedFiles = @ + 1,
                            !.skippedBytes = @ + f.remainingBytes]
         IN  moveToNextFile(reset([s1 EXCEPT !.fileInTransfer = f]))

R_rollbkCommand(s) ==
    IF s.status # "InTransfer" \/ ~s.fileInTransfer.present
    THEN manageError(s)
    ELSE LET f == Rollback(s.fileInTransfer)
             s1 == [SetFileStatus(Write(s, Cmd("ROLLBK")),
                                  "TransferFailed") EXCEPT
                       !.skippedFiles = @ + 1,
                       !.skippedBytes = @ + f.remainingBytes]
         IN  moveToNextFile(reset([s1 EXCEPT !.fileInTransfer = f]))

closeCommand(s) ==
    IF s.status = "Closed" THEN [s EXCEPT !.go = FALSE]
    ELSE IF s.status \notin {"TransferCompleted", "Closing"}
    THEN manageError(s)
    ELSE closeConnection(s)

pauseCommand(s) == togglePauseMode(s, FALSE)

R_Handle(s, c, o) ==
    CASE c.c = "HELLO" -> R_helloCommand(s, c)
      [] c.c = "ACK" -> R_ackCommand(s)
      [] c.c = "SHARE" -> R_shareCommand(s, c)
      [] c.c = "ITEM" -> R_itemCommand(s, c)
      [] c.c = "START" -> R_startCommand(s, o)
      [] c.c = "SKIP" -> R_skipCommand(s)
      [] c.c = "CHUNK" -> R_chunkCommand(s, c, o)
      [] c.c = "COMMIT" -> R_commitCommand(s, o)
      [] c.c = "ROLLBK" -> R_rollbkCommand(s)
      [] c.c = "CLOSE" -> closeCommand(s)
      [] c.c = "PAUSE" -> pauseCommand(s)
      [] OTHER -> manageError(s)

(* acceptSharingRequest without the check of the Aborted status. *)
acceptSharingRequest_Unchecked(s, o) ==
    LET s1 == togglePauseMode([s EXCEPT !.preventUserTogglePause = FALSE],
                              TRUE)
    IN  IF o = "badPath" THEN manageError(s1)
        ELSE moveToNextFile([Write(s1, Cmd("ACCEPT")) EXCEPT
                                !.status = "InTransfer"])

acceptSharingRequest(s, o) ==
    LET s1 == togglePauseMode([s EXCEPT !.preventUserTogglePause = FALSE],
                              TRUE)
    IN  IF s1.status = "Aborted" THEN s1
        ELSE IF o = "badPath" THEN manageError(s1)
        ELSE moveToNextFile([Write(s1, Cmd("ACCEPT")) EXCEPT
                                !.status = "InTransfer"])

rejectSharingRequest(s) ==
    LET s1 == togglePauseMode([s EXCEPT !.preventUserTogglePause = FALSE],
                              TRUE)
    IN  IF s1.status = "Aborted" THEN s1
        ELSE closeConnection([Write(s1, Cmd("REJECT")) EXCEPT
                                 !.skippedFiles = s1.totalFiles,
                                 !.skippedBytes = s1.totalBytes])

chosen(s, action, all, o) ==
    LET s1 == togglePauseMode([s EXCEPT !.preventUserTogglePause = FALSE],
                              TRUE)
    IN  IF s1.status = "Aborted" THEN s1
        ELSE performDFAction(
                 [s1 EXCEPT !.defaultDFAction = IF all THEN action ELSE @],
                 action, o)

(***************************************************************************)
(* SyfftProtocolSender.                                                    *)
(***************************************************************************)
(* m_peerStatus and m_peerAddress are those of the PeerUser the instance  *)
(* was built from (m_peerAddress stands for the address and the port);   *)
(* queued holds the slots and the lambdas queued for the thread of the    *)
(* instance by the signal updated of the PeerUser.                        *)
Sender(fs, peer) ==
    [role |-> "S", localUuid |-> LOCAL_UUID_S, peerUuid |-> peer,
     list |-> fs, m_peerStatus |-> "Online", m_peerAddress |-> 1,
     queued |-> <<>>]
    @@ Common("Unconnected")

RECURSIVE WriteItems(_, _)
WriteItems(s, fs) ==
    IF fs = <<>> THEN s
    ELSE WriteItems(Write(s, Item(Head(fs).size, FilePath)), Tail(fs))

transferNextFile(s, o) ==
    LET s1 == moveToNextFile(reset(s))
    IN  IF s1.currentFile = s1.totalFiles THEN s1
        ELSE LET f == FileInTransferReader(CurSize(s1), o)
             IN  Write([s1 EXCEPT !.fileInTransfer = f],
                       IF f.error THEN Cmd("SKIP") ELSE Cmd("START"))

(* sendDataChunks sending COMMIT whatever the reader says. *)
RECURSIVE sendDataChunks_AlwaysCommit(_, _, _)
sendDataChunks_AlwaysCommit(s, n, o) ==
    LET f == s.fileInTransfer
    IN  IF n = 0 THEN s
        ELSE IF f.remainingBytes = 0
        THEN Write([s EXCEPT !.fileInTransfer = ReaderCommit(f, o)],
                   Cmd("COMMIT"))
        ELSE IF ~ReaderChunkOk(f, o)
        THEN Write([s EXCEPT !.fileInTransfer =
                        Rollback(ReaderProcessNextDataChunk(f, o))],
                   Cmd("COMMIT"))
        ELSE sendDataChunks_AlwaysCommit(
                 [Write(s, Cmd1("CHUNK", Min(f.remainingBytes,
                                             MAX_CHUNK_SIZE)))
                    EXCEPT !.fileInTransfer =
                               ReaderProcessNextDataChunk(f, o),
                           !.transferredBytes =
                               @ + Min(f.remainingBytes, MAX_CHUNK_SIZE)],
                 n - 1, o)

RECURSIVE sendDataChunks(_, _, _)
sendDataChunks(s, n, o) ==
    LET f == s.fileInTransfer
    IN  IF n = 0 THEN s
        ELSE IF f.remainingBytes = 0
        THEN Write([s EXCEPT !.fileInTransfer = ReaderCommit(f, o)],
                   IF ReaderCommitOk(f, o) THEN Cmd("COMMIT")
                   ELSE Cmd("ROLLBK"))
        ELSE IF ~ReaderChunkOk(f, o)
        THEN Write([s EXCEPT !.fileInTransfer =
                        Rollback(ReaderProcessNextDataChunk(f, o))],
                   Cmd("ROLLBK"))
        ELSE sendDataChunks(
                 [Write(s, Cmd1("CHUNK", Min(f.remainingBytes,
                                             MAX_CHUNK_SIZE)))
                    EXCEPT !.fileInTransfer =
                               ReaderProcessNextDataChunk(f, o),
                           !.transferredBytes =
                               @ + Min(f.remainingBytes, MAX_CHUNK_SIZE)],
                 n - 1, o)

(* The handler of bytesWritten without the check of the status. *)
bytesWritten_AnyStatus(s, n, o) ==
    IF s.fileInTransfer.present
    THEN IF s.fileInTransfer.transferStarted
            /\ ~transferCompleted(s.fileInTransfer)
         THEN sendDataChunks(s, n, o) ELSE s
    ELSE s

(* The handler of QTcpSocket::bytesWritten. *)
bytesWritten(s, n, o) ==
    IF s.status = "InTransfer" /\ s.fileInTransfer.present
    THEN IF s.fileInTransfer.transferStarted
            /\ ~transferCompleted(s.fileInTransfer)
         THEN sendDataChunks(s, n, o) ELSE s
    ELSE s

(* The handler of QAbstractSocket::connected. *)
connected(s) ==
    Write(s, Cmd1("HELLO", toRfc4122(s.localUuid)))

(* helloCommand without the check of the UUID of the peer. *)
S_helloCommand_AnyUuid(s, c) ==
    IF s.status # "Connecting" THEN manageError(s)
    ELSE LET s1 == [Write(s, Cmd("ACK")) EXCEPT !.status = "Connected"]
             s2 == Write(s1, Cmd2("SHARE", s1.totalFiles, s1.totalBytes))
         IN  Write(WriteItems(s2, s2.files), Cmd("SHARE"))

S_helloCommand(s, c) ==
    IF s.status # "Connecting" THEN manageError(s)
    ELSE IF s.peerUuid # fromRfc4122(c.a) THEN manageError(s)
    ELSE LET s1 == [Write(s, Cmd("ACK")) EXCEPT !.status = "Connected"]
             s2 == Write(s1, Cmd2("SHARE", s1.totalFiles, s1.totalBytes))
         IN  Write(WriteItems(s2, s2.files), Cmd("SHARE"))

S_acceptCommand(s, n, o) ==
    IF s.status = "Connected"
    THEN transferNextFile([s EXCEPT !.status = "InTransfer"], o)
    ELSE IF s.status = "InTransfer" /\ s.fileInTransfer.present
    THEN IF ~s.fileInTransfer.error /\ ~s.fileInTransfer.transferStarted
         THEN sendDataChunks(SetFileStatus(s, "InTransfer"), n, o)
         ELSE manageError(s)
    ELSE manageError(s)

S_rejectCommand(s, o) ==
    IF s.status = "Connected"
    THEN closeConnection([s EXCEPT !.skippedFiles = s.totalFiles,
                                   !.skippedBytes = s.totalBytes,
                                   !.status = "TransferCompleted"])
    ELSE IF s.status = "InTransfer" /\ s.fileInTransfer.present
    THEN IF ~s.fileInTransfer.transferStarted
         THEN transferNextFile(
                  SetFileStatus(
                      [s EXCEPT !.skippedFiles = @ + 1,
                                !.skippedBytes =
                                    @ + s.fileInTransfer.remainingBytes],
                      IF s.fileInTransfer.error THEN "TransferFailed"
                      ELSE "TransferRejected"), o)
         ELSE manageError(s)
    ELSE manageError(s)

S_commitCommand(s, o) ==
    IF s.status = "InTransfer" /\ s.fileInTransfer.present
    THEN IF s.fileInTransfer.committed
         THEN transferNextFile(
                  [SetFileStatus(s, "Transferred") EXCEPT
                      !.transferredFiles = @ + 1], o)
         ELSE manageError(s)
    ELSE manageError(s)

S_rollbkCommand(s, o) ==
    IF s.status = "InTransfer" /\ s.fileInTransfer.present
    THEN IF transferCompleted(s.fileInTransfer)
         THEN transferNextFile(
                  [SetFileStatus(s, "TransferFailed") EXCEPT
                      !.fileInTransfer = Rollback(@),
                      !.skippedFiles = @ + 1,
                      !.skippedBytes =
                          @ + s.fileInTransfer.remainingBytes], o)
         ELSE manageError(s)
    ELSE manageError(s)

S_stopCommand(s) ==
    IF s.status = "InTransfer" /\ s.fileInTransfer.present
    THEN IF s.fileInTransfer.transferStarted
         THEN IF ~transferCompleted(s.fileInTransfer)
              THEN Write([s EXCEPT !.fileInTransfer = Rollback(@)],
                         Cmd("ROLLBK"))
              ELSE s
         ELSE manageError(s)
    ELSE manageError(s)

S_Handle(s, c, n, o) ==
    CASE c.c = "HELLO" -> S_helloCommand(s, c)
      [] c.c = "ACCEPT" -> S_acceptCommand(s, n, o)
      [] c.c = "REJECT" -> S_rejectCommand(s, o)
      [] c.c = "COMMIT" -> S_commitCommand(s, o)
      [] c.c = "ROLLBK" -> S_rollbkCommand(s, o)
      [] c.c = "STOP" -> S_stopCommand(s)
      [] c.c = "CLOSE" -> closeCommand(s)
      [] c.c = "PAUSE" -> pauseCommand(s)
      [] OTHER -> manageError(s)

(***************************************************************************)
(* readData of both classes: the loop over the commands in the read        *)
(* buffer.  x gathers what the environment decides during the call: the    *)
(* outcome o of the file system and the number n of iterations the write   *)
(* buffer allows to sendDataChunks.                                        *)
(***************************************************************************)
(* Whether the protocol expects command c in the state of s: the checks   *)
(* each command handler makes before it acts.                            *)
Expected(s, c) ==
    LET f == s.fileInTransfer
        inTransfer == s.status = "InTransfer" /\ f.present
    IN  CASE c.c = "PAUSE" -> TRUE
          [] c.c = "ABORT" -> TRUE
          [] c.c = "CLOSE" ->
                s.status \in {"TransferCompleted", "Closing", "Closed"}
          [] c.c = "HELLO" ->
                /\ s.status = "Connecting"
                /\ s.role = "R" => s.peerUuid = UNKNOWN_UUID
          [] c.c = "ACK" ->
                /\ s.role = "R" /\ s.status = "Connecting"
                /\ s.peerUuid # UNKNOWN_UUID
          [] c.c = "SHARE" ->
                /\ s.role = "R" /\ s.status = "Connected"
                /\ \/ s.totalFiles = 0 /\ ~s.shareMsgSet
                   \/ Len(s.files) = s.totalFiles /\ s.shareMsgSet
          [] c.c = "ITEM" ->
                /\ s.role = "R" /\ s.status = "Connected"
                /\ ULess(Len(s.files), s.totalFiles)
          [] c.c \in {"START", "SKIP"} ->
                s.role = "R" /\ s.status = "InTransfer" /\ ~f.present
          [] c.c = "CHUNK" -> s.role = "R" /\ inTransfer
          [] c.c = "COMMIT" ->
                inTransfer /\ (s.role = "S" => f.committed)
          [] c.c = "ROLLBK" ->
                inTransfer /\ (s.role = "S" => transferCompleted(f))
          [] c.c = "ACCEPT" ->
                /\ s.role = "S"
                /\ \/ s.status = "Connected"
                   \/ inTransfer /\ ~f.error /\ ~f.transferStarted
          [] c.c = "REJECT" ->
                /\ s.role = "S"
                /\ \/ s.status = "Connected"
                   \/ inTransfer /\ ~f.transferStarted
          [] c.c = "STOP" ->
                s.role = "S" /\ inTransfer /\ f.transferStarted
          [] OTHER -> FALSE

(* One iteration of the loop of readData: the switch on the command.  The *)
(* fields handledInPause, unexpPre and unexpOther record what the         *)
(* iteration did: that it ran while the status was PausedByUser, and the  *)
(* status in which an unexpected command was met together with whether    *)
(* its handling did anything but manageError.  The field sentInPeerPause  *)
(* records that a handler entered in PausedByPeer wrote data of a file,   *)
(* and the field stopsSent counts the STOP commands written.              *)
FileData == {"CHUNK", "COMMIT", "ROLLBK"}

Mark(s, r) ==
    [r EXCEPT !.sentInPeerPause =
                  @ \/ (/\ s.status = "PausedByPeer"
                        /\ \E i \in (Len(s.wr) + 1)..Len(r.wr) :
                               r.wr[i].c \in FileData),
              !.stopsSent =
                  @ + Cardinality({i \in (Len(s.wr) + 1)..Len(r.wr) :
                                      r.wr[i].c = "STOP"})]

Enter(s) ==
    [s EXCEPT !.handledInPause = @ \/ s.status = "PausedByUser"]

Dispatch(s, c, x) ==
    IF s.role = "R" THEN R_Handle(s, c, x.o) ELSE S_Handle(s, c, x.n, x.o)

Observe(s, c, r, e) ==
    IF Expected(s, c) THEN r
    ELSE [r EXCEPT !.unexpPre = s.status, !.unexpOther = @ \/ r # e]

Handle(s, c, x) ==
    Mark(s, Observe(s, c, Dispatch(Enter(s), c, x), manageError(Enter(s))))

RECURSIVE ReadLoop(_, _)
Continue(s, x) == IF s.go THEN ReadLoop(s, x) ELSE s

ReadLoop(s, x) ==
    IF s.inbuf = <<>> THEN s
    ELSE Continue(Handle([s EXCEPT !.inbuf = Tail(@)], Head(s.inbuf), x), x)

readData(s, x) ==
    IF s.status = "PausedByUser" THEN s ELSE ReadLoop(s, x)

(***************************************************************************)
(* The handler of QAbstractSocket::error.  The error of a connection the   *)
(* peer closed or reset is RemoteHostClosedError; the socket is no more    *)
(* valid when the signal is emitted.                                       *)
(***************************************************************************)
ErrorHandler(s, error) ==
    IF s.status = "PausedByUser" /\ error = "RemoteHostClosedError"
    THEN LET s1 == togglePauseMode(
                       [s EXCEPT !.preventUserTogglePause = FALSE], TRUE)
         IN  Post(s1, "error")
    ELSE IF s.status \notin {"Aborted", "Closed"} THEN manageError(s)
    ELSE s

(* The socket reports the error and disconnects. *)
SocketError(s, error) ==
    LET s1 == ErrorHandler([s EXCEPT !.sock = "Invalid"], error)
    IN  Disconnected([s1 EXCEPT !.sock = "Unconnected"])

(***************************************************************************)
(* The environment: the two sockets and the bytes between them.            *)
(***************************************************************************)
Side(p) == IF p = "S" THEN snd ELSE rcv

Inputs(p) ==
    IF p = "S"
    THEN [o : {"ok", "readerError", "readFail", "readerChanged"},
          n : {1, 2}]
    ELSE [o : {"ok", "writerError", "exists", "writeFail",
               "writerCommitFail"},
          n : {1}]

FileLists ==
    UNION {[1..n -> [size : FileSizes, status : {"Scheduled"},
                     path : {FilePath}]] :
               n \in 0..MaxFiles}

(* Side p goes from old to s in one handler: what it wrote leaves for the  *)
(* peer, an abort of a live socket resets the connection, and nothing is   *)
(* read from a socket that is no more connected.  incoming is what is left *)
(* in flight towards p, end what the handler makes follow the bytes of p.  *)
Transition(p, old, s, incoming, end) ==
    LET q == Peer(p)
        s1 == [s EXCEPT !.wr = <<>>, !.go = TRUE,
                        !.wroteAfterAbort =
                            @ \/ (old.status = "Aborted" /\ s.wr # <<>>),
                        !.ranAfterAbort = @ \/ old.status = "Aborted"]
    IN  /\ IF p = "S" THEN snd' = s1 /\ UNCHANGED rcv
           ELSE rcv' = s1 /\ UNCHANGED snd
        /\ wire' = [wire EXCEPT
                       ![p] = IF Side(q).sock = "Unconnected" THEN <<>>
                              ELSE @ \o s.wr,
                       ![q] = IF s.sock = "Unconnected" THEN <<>>
                              ELSE incoming]
        /\ eof' = [eof EXCEPT
                      ![p] = IF old.status # "Aborted"
                                /\ s.status = "Aborted"
                                /\ old.sock \in {"Connected", "Closing"}
                             THEN "rst" ELSE end]
        /\ UNCHANGED <<users, net>>

Step(p, old, s) == Transition(p, old, s, wire[Peer(p)], eof[p])

(***************************************************************************)
(* The actions: one per slot, handler or posted lambda.  What disturbs a   *)
(* session (a request of the user to pause or to terminate, a failure of   *)
(* the transport or of the file system) is an event, and env.events counts *)
(* them up to MaxEvents.                                                   *)
(***************************************************************************)

(* A handler that meets the file system: r is what it gives under the     *)
(* outcome chosen and r0 under the outcome "ok"; they differ when the     *)
(* file system failed the handler, which is an event; env.fault keeps    *)
(* the outcome o of the last failure.                                     *)
Run(p, old, r, r0, incoming, o) ==
    LET cost == IF r = r0 THEN 0 ELSE 1
    IN  /\ env.events + cost <= MaxEvents
        /\ Transition(p, old, r, incoming, eof[p])
        /\ env' = [env EXCEPT !.events = @ + cost,
                              !.clean = @ /\ cost = 0,
                              !.fault = IF cost = 0 THEN @ ELSE o]

Ok(x) == [x EXCEPT !.o = "ok"]

(* SyfftProtocolSender::sendFiles and connectToPeer. *)
S_SendFiles ==
    /\ snd.status = "New"
    /\ Step("S", snd,
            [snd EXCEPT !.files = snd.list,
                        !.totalFiles = Len(snd.list),
                        !.totalBytes = SumSizes(snd.list),
                        !.sock = "Connecting",
                        !.status = "Connecting"])
    /\ UNCHANGED env

(* The connection is established: the sender's socket emits connected and *)
(* the server of the peer builds the receiver around the accepted socket. *)
S_SocketConnected ==
    /\ snd.sock = "Connecting"
    /\ Step("S", snd, connected([snd EXCEPT !.sock = "Connected"]))
    /\ env' = [env EXCEPT !.established = TRUE]

(* SyfftProtocolReceiver::acceptConnection. *)
R_AcceptConnection ==
    /\ env.established
    /\ rcv.status = "New"
    /\ \E x \in Inputs("R") :
           LET s == [rcv EXCEPT !.status = "Connecting"]
           IN  Run("R", rcv, readData(s, x), readData(s, Ok(x)), wire["S"],
                   x.o)

(* k commands reach the socket of q, which emits readyRead.  The signals *)
(* of a receiver not yet accepted are blocked.                            *)
Deliver(q) ==
    LET s == Side(q)
        in == wire[Peer(q)]
    IN  /\ s.sock = "Connected"
        /\ q = "R" => env.established
        /\ \E k \in 1..Len(in), x \in Inputs(q) :
               LET s1 == [s EXCEPT !.inbuf = @ \o SubSeq(in, 1, k)]
                   rest == SubSeq(in, k + 1, Len(in))
               IN  IF s.status = "New" THEN Run(q, s, s1, s1, rest, x.o)
                   ELSE Run(q, s, readData(s1, x), readData(s1, Ok(x)),
                            rest, x.o)

(* The lambda togglePauseMode posts when it leaves a pause: readyRead and  *)
(* bytesWritten are emitted again.                                         *)
EmitBytesWritten(s, x) ==
    IF s.role = "S" THEN Mark(s, bytesWritten(s, x.n, x.o)) ELSE s

Emitted(s, x) == EmitBytesWritten(readData(s, x), x)

ReadyReadTimer(p) ==
    LET s == Side(p)
    IN  /\ s.posted # <<>>
        /\ Head(s.posted) = "readyRead"
        /\ \E x \in Inputs(p) :
               LET s1 == [s EXCEPT !.posted = Tail(@)]
               IN  Run(p, s, Emitted(s1, x), Emitted(s1, Ok(x)),
                       wire[Peer(p)], x.o)

(* The lambda the error handler posts: the error is emitted again. *)
ErrorTimer(p) ==
    LET s == Side(p)
    IN  /\ s.posted # <<>>
        /\ Head(s.posted) = "error"
        /\ Step(p, s, ErrorHandler([s EXCEPT !.posted = Tail(@)],
                                   "RemoteHostClosedError"))
        /\ UNCHANGED env

(* The socket of the sender has written some bytes. *)
S_BytesWritten ==
    /\ snd.sock = "Connected"
    /\ \E x \in Inputs("S") :
           /\ bytesWritten(snd, x.n, x.o) # snd
           /\ Run("S", snd, EmitBytesWritten(snd, x),
                  EmitBytesWritten(snd, Ok(x)), wire["R"], x.o)

(* The lambda SyfftProtocolCommon::changePauseMode posts. *)
changePauseMode(s, enterPauseMode) ==
    IF (enterPauseMode /\ s.status = "PausedByUser")
       \/ (~enterPauseMode /\ s.status # "PausedByUser")
    THEN s ELSE togglePauseMode(s, TRUE)

(* The user asks to pause or to resume the session. *)
UserPause(p, enterPauseMode) ==
    LET s == Side(p)
        s1 == changePauseMode(s, enterPauseMode)
    IN  /\ s1 # s
        /\ enterPauseMode => env.events < MaxEvents
        /\ Step(p, s, s1)
        /\ env' = [env EXCEPT !.events =
                                  IF enterPauseMode THEN @ + 1 ELSE @]

(* SyfftProtocolCommon::terminateConnection. *)
UserTerminate(p) ==
    LET s == Side(p)
    IN  /\ env.events < MaxEvents
        /\ abortConnection(s) # s
        /\ Step(p, s, abortConnection(s))
        /\ env' = [env EXCEPT !.events = @ + 1, !.clean = FALSE]

(* The answer to the sharing request. *)
R_DecideShare ==
    /\ rcv.request = "sharing"
    /\ LET s == [rcv EXCEPT !.request = "none"]
       IN  \/ \E o \in {"ok", "badPath"} :
                  Run("R", rcv, acceptSharingRequest(s, o),
                      acceptSharingRequest(s, "ok"), wire["S"], o)
           \/ Run("R", rcv, rejectSharingRequest(s),
                  rejectSharingRequest(s), wire["S"], "ok")

(* The answer to the request about a duplicated file. *)
R_DecideDup ==
    /\ rcv.request = "duplicated"
    /\ \E action \in DuplicatedFileAction \ {"Ask"}, all \in BOOLEAN,
          o \in {"ok", "writerError", "noFreeName"} :
           LET s == [rcv EXCEPT !.request = "none"]
           IN  Run("R", rcv, chosen(s, action, all, o),
                   chosen(s, action, all, "ok"), wire["S"], o)

(* disconnectFromHost completes: the pending bytes are written, the       *)
(* socket disconnects and emits disconnected.                             *)
SockFlushClose(p) ==
    LET s == Side(p)
    IN  /\ s.sock = "Closing"
        /\ Transition(p, s, Disconnected([s EXCEPT !.sock = "Unconnected"]),
                      wire[Peer(p)], "fin")
        /\ UNCHANGED env

(* The socket of q reads the end of the stream its peer closed. *)
RemoteClosed(q) ==
    LET s == Side(q)
    IN  /\ eof[Peer(q)] = "fin"
        /\ wire[Peer(q)] = <<>>
        /\ s.sock = "Connected"
        /\ Step(q, s, IF s.status = "New"
                      THEN [s EXCEPT !.sock = "Unconnected"]
                      ELSE SocketError(s, "RemoteHostClosedError"))
        /\ UNCHANGED env

(* The socket of q meets the reset of the connection by its peer. *)
SockReset(q) ==
    LET s == Side(q)
    IN  /\ eof[Peer(q)] = "rst"
        /\ s.sock \in {"Connected", "Closing"}
        /\ Step(q, s, IF s.status = "New"
                      THEN [s EXCEPT !.sock = "Unconnected"]
                      ELSE SocketError(s, "RemoteHostClosedError"))
        /\ UNCHANGED env

(* The transport fails. *)
SpontaneousError(p) ==
    LET s == Side(p)
    IN  /\ env.events < MaxEvents
        /\ s.sock \in {"Connecting", "Connected", "Closing"}
        /\ s.status # "New"
        /\ Step(p, s, SocketError(s, "NetworkError"))
        /\ env' = [env EXCEPT !.events = @ + 1, !.clean = FALSE]

Init ==
    /\ \E fs \in FileLists, peer \in {LOCAL_UUID_R, OTHER_UUID} :
           /\ snd = Sender(fs, peer)
           /\ env = [established |-> FALSE, events |-> 0,
                     clean |-> peer = LOCAL_UUID_R, violation |-> FALSE,
                     fault |-> "none", length |-> 0,
                     objects |-> NoObjects, call |-> "none", path |-> FilePath]
    /\ rcv = Receiver
    /\ net = NoNet
    /\ wire = [p \in Sides |-> <<>>]
    /\ eof = [p \in Sides |-> "none"]
    /\ users = NoUsers

Next ==
    \/ S_SendFiles
    \/ S_SocketConnected
    \/ R_AcceptConnection
    \/ \E p \in Sides : Deliver(p)
    \/ \E p \in Sides : ReadyReadTimer(p)
    \/ \E p \in Sides : ErrorTimer(p)
    \/ S_BytesWritten
    \/ \E p \in Sides, enter \in BOOLEAN : UserPause(p, enter)
    \/ \E p \in Sides : UserTerminate(p)
    \/ R_DecideShare
    \/ R_DecideDup
    \/ \E p \in Sides : SockFlushClose(p)
    \/ \E p \in Sides : RemoteClosed(p)
    \/ \E p \in Sides : SockReset(p)
    \/ \E p \in Sides : SpontaneousError(p)

Spec == Init /\ [][Next]_vars

(***************************************************************************)
(* The session with a peer that does not follow the protocol: once the    *)
(* connection is quiet (nothing in flight either way, no lambda queued),   *)
(* any command may reach the socket of q, which emits readyRead.  It is    *)
(* the last event of the session: nothing else disturbs a session whose    *)
(* peer has left the protocol.                                             *)
(***************************************************************************)
AnyCmd(c) == IF c = "ITEM" THEN Item(0, FilePath) ELSE Cmd(c)

Inject(q) ==
    LET s == Side(q)
    IN  /\ env.established
        /\ env.events < MaxEvents
        /\ s.sock = "Connected"
        /\ wire[Peer(q)] = <<>>
        /\ wire[q] = <<>>
        /\ s.posted = <<>>
        /\ \E c \in Command, x \in Inputs(q) :
               /\ x.o = "ok"
               /\ Transition(q, s,
                             IF s.status = "New"
                             THEN [s EXCEPT !.inbuf = Append(@, AnyCmd(c))]
                             ELSE readData(
                                      [s EXCEPT !.inbuf = Append(@, AnyCmd(c))],
                                      x),
                             <<>>, eof[q])
        /\ env' = [env EXCEPT !.events = MaxEvents, !.clean = FALSE]

FuzzNext ==
    \/ Next
    \/ \E p \in Sides : Inject(p)

FuzzSpec == Init /\ [][FuzzNext]_vars

(***************************************************************************)
(* The receiver in front of a peer that forges the sharing request: after  *)
(* the handshake, the peer sends SHARE and ITEM commands with any number   *)
(* of files, any number of bytes, any size and any path.  env.violation    *)
(* records that a command broke what the receiver has to validate: a       *)
(* number of files not below INT_MAX, an invalid path, or sizes that do    *)
(* not add up to the number of bytes advertised.                           *)
(***************************************************************************)
ForgedPaths ==
    {FilePath, "../file", "/dir/file", "dir//file", "dir/../file"}

ForgedSizes == {0, MAX_CHUNK_SIZE, U64 \div 2}

ForgedCommands ==
    {Cmd2("SHARE", n, b) :
         n \in {0, 1, MaxItems, INT_MAX - 1, INT_MAX, CUR_NONE},
         b \in {0, MAX_CHUNK_SIZE}}
    \cup {Item(size, path) : size \in ForgedSizes, path \in ForgedPaths}

RECURSIVE Total(_)
Total(fs) == IF fs = <<>> THEN 0 ELSE Head(fs).size + Total(Tail(fs))

Violation(s, c) ==
    IF c.c = "ITEM" THEN c.path # FilePath
    ELSE IF s.totalFiles = 0 /\ ~s.shareMsgSet
    THEN ~(0 <= c.a /\ c.a < INT_MAX)
    ELSE Len(s.files) = s.totalFiles /\ Total(s.files) # s.totalBytes

Forge(c) ==
    /\ rcv.status = "Connected"
    /\ c.c = "ITEM" => Len(rcv.files) < MaxItems
    /\ Transition("R", rcv,
                  readData([rcv EXCEPT !.inbuf = Append(@, c)],
                           [o |-> "ok", n |-> 1]),
                  <<>>, eof["R"])
    /\ env' = [env EXCEPT !.violation = @ \/ Violation(rcv, c)]

ForgeInit ==
    /\ snd = Sender(<<>>, LOCAL_UUID_R)
    /\ rcv = [Receiver EXCEPT !.status = "Connected",
                              !.peerUuid = NULL_UUID]
    /\ net = NoNet
    /\ wire = [p \in Sides |-> <<>>]
    /\ eof = [p \in Sides |-> "none"]
    /\ users = NoUsers
    /\ env = [established |-> TRUE, events |-> 0, clean |-> FALSE,
              violation |-> FALSE, fault |-> "none",
              length |-> 0,
              objects |-> NoObjects, call |-> "none", path |-> FilePath]

ForgeNext == \E c \in ForgedCommands : Forge(c)

ForgeSpec == ForgeInit /\ [][ForgeNext]_vars

(***************************************************************************)
(* The receiver of a peer that forges a session of one file, or of two     *)
(* files of half the range each: the sharing request with the path and the *)
(* sizes it likes, then, once the user has                                 *)
(* accepted it, START, up to MaxChunks chunks of any declared length and   *)
(* COMMIT, in any order.  The peer sends nothing while the receiver waits  *)
(* for its user.  env.path is the path the peer gave the file, env.length  *)
(* the length declared by the last chunk the writer of the file met, and   *)
(* env.violation tells that one was above MAX_CHUNK_SIZE.                  *)
(***************************************************************************)
ChunkLengths ==
    {0, 1, MAX_CHUNK_SIZE - 1, MAX_CHUNK_SIZE, MAX_CHUNK_SIZE + 1, 9000,
     INT_MAX, CUR_NONE}

ChunkFileSizes == {0, MAX_CHUNK_SIZE, 2 * MAX_CHUNK_SIZE}

(* The paths the peer gives the file: those of ForgedPaths and two more   *)
(* the validation lets through, the parent of the base path and the empty *)
(* path.                                                                  *)
ChunkPaths == ForgedPaths \cup {"..", ""}

ForgedChunks ==
    {Cmd1("CHUNK", len) : len \in ChunkLengths}
    \cup {Cmd("START"), Cmd("COMMIT")}

Quiet == [o |-> "ok", n |-> 1]

(* The sizes of the files of the request: one file, or two files of half *)
(* the range of quint64 each.                                             *)
ChunkRequests ==
    {<<size>> : size \in ChunkFileSizes} \cup {<<U64 \div 2, U64 \div 2>>}

ForgeRequest(sizes, path) ==
    LET items == [i \in 1..Len(sizes) |->
                     [size |-> sizes[i], path |-> path]]
        share == Cmd2("SHARE", Len(sizes), SumSizes(items))
    IN  /\ rcv.status = "Connected"
        /\ Transition("R", rcv,
                      readData([rcv EXCEPT
                                   !.inbuf =
                                       <<share>>
                                       \o [i \in 1..Len(sizes) |->
                                               Item(sizes[i], path)]
                                       \o <<share>>],
                               Quiet),
                      <<>>, eof["R"])
        /\ env' = [env EXCEPT !.path = path]

AcceptForged ==
    /\ rcv.request = "sharing"
    /\ Transition("R", rcv,
                  acceptSharingRequest([rcv EXCEPT !.request = "none"],
                                       "ok"),
                  <<>>, eof["R"])
    /\ UNCHANGED env

ForgedReadyRead ==
    /\ rcv.posted # <<>>
    /\ Head(rcv.posted) = "readyRead"
    /\ Transition("R", rcv,
                  readData([rcv EXCEPT !.posted = Tail(@)], Quiet),
                  <<>>, eof["R"])
    /\ UNCHANGED env

ForgeChunk(c) ==
    LET met == /\ c.c = "CHUNK"
               /\ rcv.status = "InTransfer"
               /\ rcv.fileInTransfer.present
    IN  /\ rcv.sock = "Connected"
        /\ rcv.status = "InTransfer"
        /\ c.c = "CHUNK" => env.events < MaxChunks
        /\ Transition("R", rcv,
                      readData([rcv EXCEPT !.inbuf = Append(@, c)], Quiet),
                      <<>>, eof["R"])
        /\ env' = IF c.c # "CHUNK" THEN env
                  ELSE [env EXCEPT
                           !.events = @ + 1,
                           !.length = IF met THEN c.a ELSE @,
                           !.violation =
                               @ \/ (met /\ ULess(MAX_CHUNK_SIZE, c.a))]

ChunkInit ==
    /\ snd = Sender(<<>>, LOCAL_UUID_R)
    /\ rcv = [Receiver EXCEPT !.status = "Connected",
                              !.peerUuid = NULL_UUID]
    /\ net = NoNet
    /\ wire = [p \in Sides |-> <<>>]
    /\ eof = [p \in Sides |-> "none"]
    /\ users = NoUsers
    /\ env = [established |-> TRUE, events |-> 0, clean |-> FALSE,
              violation |-> FALSE, fault |-> "none", length |-> 0,
              objects |-> NoObjects, call |-> "none",
              path |-> FilePath]

ChunkNext ==
    \/ \E sizes \in ChunkRequests, path \in ChunkPaths :
           ForgeRequest(sizes, path)
    \/ AcceptForged
    \/ ForgedReadyRead
    \/ \E c \in ForgedChunks : ForgeChunk(c)

ChunkSpec == ChunkInit /\ [][ChunkNext]_vars

(***************************************************************************)
(* The session whose user goes on asking to pause and to resume after the  *)
(* peer closed the connection, while the lambdas the error handler posted  *)
(* are still queued: these requests are not counted as events.             *)
(***************************************************************************)
UserPauseAfterClose(p, enterPauseMode) ==
    LET s == Side(p)
    IN  /\ s.sock = "Unconnected"
        /\ s.posted # <<>>
        /\ Last(s.posted) = "error"
        /\ changePauseMode(s, enterPauseMode) # s
        /\ Step(p, s, changePauseMode(s, enterPauseMode))
        /\ UNCHANGED env

RaceNext ==
    \/ Next
    \/ \E p \in Sides, enter \in BOOLEAN : UserPauseAfterClose(p, enter)

RaceSpec == Init /\ [][RaceNext]_vars

(***************************************************************************)
(* The properties.                                                         *)
(***************************************************************************)
Terminal(s) == s.status \in {"Closed", "Aborted"}

Paused(s) == s.status \in {"PausedByUser", "PausedByPeer"}

(* What reading the status of a file can give. *)
Reads(st) == IF st = Indeterminate THEN FileStatus ELSE {st}

(* C1: whenever a session is Closed or Aborted, its transferred and its   *)
(* skipped files add up to its total files.                               *)
C1_CountersAtTerminal ==
    \A p \in Sides :
        Terminal(Side(p)) =>
            Side(p).transferredFiles + Side(p).skippedFiles
                = Side(p).totalFiles

C1_Witness ==
    /\ snd.status = "Aborted"
    /\ snd.totalFiles = 1
    /\ snd.skippedFiles = 1

(* C2: when a session is Closed or Aborted, every file of its list is     *)
(* Transferred, TransferRejected or TransferFailed.                       *)
C2_FilesAtTerminal ==
    \A p \in Sides :
        Terminal(Side(p)) =>
            \A i \in 1..Len(Side(p).files) :
                Reads(Side(p).files[i].status) \subseteq
                    {"Transferred", "TransferRejected", "TransferFailed"}

(* C3: in a session with no protocol violation, no failure of the         *)
(* transport or of the file system and no termination by the user,        *)
(* neither side ends Aborted.                                             *)
C3_NoAbortInCleanSession ==
    env.clean => snd.status # "Aborted" /\ rcv.status # "Aborted"

(* C4: in a session Closed on both sides, a file is Transferred on the    *)
(* sender if and only if it is Transferred on the receiver.               *)
C4_TransferredOnBothSides ==
    (snd.status = "Closed" /\ rcv.status = "Closed") =>
        \A i \in 1..Len(snd.files) :
            /\ i <= Len(rcv.files)
            /\ \A r \in Reads(rcv.files[i].status) :
                   (snd.files[i].status = "Transferred")
                       <=> (r = "Transferred")

Frozen(s, t) ==
    s.status = "Aborted" =>
        /\ t.status = "Aborted"
        /\ t.totalFiles = s.totalFiles
        /\ t.transferredFiles = s.transferredFiles
        /\ t.skippedFiles = s.skippedFiles
        /\ t.totalBytes = s.totalBytes
        /\ t.transferredBytes = s.transferredBytes
        /\ t.skippedBytes = s.skippedBytes
        /\ ~t.wroteAfterAbort

C7_UnexpectedAbortsUnlessClosed ==
    \A p \in Sides :
        Side(p).unexpPre # "none" =>
            /\ Side(p).status =
                   IF Side(p).unexpPre = "Closed" THEN "Closed" ELSE "Aborted"
            /\ ~Side(p).unexpOther

(* C7 as stated: a command met in a status in which the protocol does not *)
(* expect it always leaves the session Aborted, with no other effect.     *)
C7_UnexpectedAborts ==
    \A p \in Sides :
        Side(p).unexpPre # "none" =>
            Side(p).status = "Aborted" /\ ~Side(p).unexpOther

C7_Witness ==
    /\ snd.unexpPre = "InTransfer"
    /\ snd.status = "Aborted"
    /\ ~env.clean

(* C8: once neither the user nor the peer holds a live session paused,    *)
(* the session is in no pause status and its stack of statuses is empty.  *)
C8_PauseStack ==
    \A p \in Sides :
        (/\ Side(p).status \notin {"Closing", "Closed", "Aborted"}
         /\ ~Side(p).userHolds
         /\ ~Side(p).peerHolds) =>
            ~Paused(Side(p)) /\ Side(p).oldStatusStack = <<>>

(* C9: no command is handled while the status is PausedByUser.            *)
C9_NothingHandledInPause ==
    ~snd.handledInPause /\ ~rcv.handledInPause

C11_UserToggleInhibited ==
    rcv.request # "none" =>
        \A e \in BOOLEAN :
            /\ changePauseMode(rcv, e) = rcv
            /\ changePauseMode(rcv, e).wr = <<>>

(* C12: when the peer closes the connection of a session in PausedByUser, *)
(* the session leaves the pause with its buffered commands kept and       *)
(* queues a new reading before the error; a session not paused again     *)
(* meets the error with no command left in its buffer, and the error      *)
(* aborts it unless it is Closed, as it does in a session that was not    *)
(* paused.                                                                *)
ClosedInPause(s, t) ==
    (/\ s.status = "PausedByUser"
     /\ s.sock = "Connected"
     /\ t.sock = "Unconnected"
     /\ env' = env) =>
        /\ t.status = Last(s.oldStatusStack)
        /\ t.inbuf = s.inbuf
        /\ Len(t.posted) >= 2
        /\ SubSeq(t.posted, Len(t.posted) - 1, Len(t.posted))
               = <<"readyRead", "error">>

CloseAfterRead(s, t) ==
    /\ (/\ t.posted # <<>>
        /\ Head(t.posted) = "error"
        /\ t.status # "PausedByUser") => t.inbuf = <<>>
    /\ (/\ s.posted # <<>>
        /\ Head(s.posted) = "error"
        /\ t.posted = Tail(s.posted)
        /\ s.status # "PausedByUser") =>
           t.status = IF s.status = "Closed" THEN "Closed" ELSE "Aborted"

C12_UnpauseThenClose ==
    [][/\ ClosedInPause(snd, snd') /\ CloseAfterRead(snd, snd')
       /\ ClosedInPause(rcv, rcv') /\ CloseAfterRead(rcv, rcv')]_vars

(* C13: no handler entered in PausedByPeer writes a CHUNK, a COMMIT or a  *)
(* ROLLBK, and the commands buffered in a session in PausedByPeer are     *)
(* read: none stays in the buffer unless a reading is queued.             *)
C13_PeerPauseStopsSending ==
    \A p \in Sides :
        /\ ~Side(p).sentInPeerPause
        /\ (Side(p).status = "PausedByPeer" /\ Side(p).inbuf # <<>>) =>
               \E i \in 1..Len(Side(p).posted) :
                   Side(p).posted[i] = "readyRead"

C13_Witness ==
    /\ snd.status = "PausedByPeer"
    /\ snd.fileInTransfer.present
    /\ snd.fileInTransfer.transferStarted
    /\ ~transferCompleted(snd.fileInTransfer)
    /\ snd.handledInPause = FALSE
    /\ rcv.status = "PausedByUser"

(* C14: in a session whose sender expects the UUID of another user than   *)
(* the one that answers, no side is ever Connected or further and no ACK  *)
(* is ever sent, and the sender does not outlive the HELLO of the         *)
(* receiver: while its socket is connected, that HELLO is still in flight *)
(* or in its buffer.                                                      *)
BeyondConnecting ==
    {"Connected", "InTransfer", "TransferCompleted", "Closing", "Closed"}

NeverConnected(s) ==
    /\ s.status \notin BeyondConnecting
    /\ \A i \in 1..Len(s.oldStatusStack) :
           s.oldStatusStack[i] \notin BeyondConnecting

Holds(q, c) ==
    \E i \in 1..Len(q) : q[i].c = c

C14_ConnectedOnlyIfUuidMatches ==
    snd.peerUuid # fromRfc4122(toRfc4122(rcv.localUuid)) =>
        /\ NeverConnected(snd)
        /\ NeverConnected(rcv)
        /\ ~Holds(wire["S"], "ACK") /\ ~Holds(rcv.inbuf, "ACK")
        /\ (rcv.peerUuid # UNKNOWN_UUID /\ snd.sock = "Connected") =>
               Holds(wire["R"], "HELLO") \/ Holds(snd.inbuf, "HELLO")

C14_Witness ==
    /\ snd.peerUuid = OTHER_UUID
    /\ rcv.peerUuid = LOCAL_UUID_S
    /\ snd.status = "Aborted"
    /\ snd.abortWrittenIn = "Aborted"
    /\ env.events = 0

(* C15: when the sharing request a peer sends breaks what the receiver    *)
(* has to validate (the number of files is not below INT_MAX, the path of *)
(* an ITEM is not valid, the sizes of the ITEMs do not add up to the      *)
(* number of bytes advertised), the session is Aborted and no sharing     *)
(* request is raised for decision.                                        *)
C15_ValidatedBeforeRequest ==
    env.violation => rcv.status = "Aborted" /\ rcv.request = "none"

(* C16: once the receiver has rejected the sharing request (it is closing *)
(* or closed without ever having moved to a file), a session without any  *)
(* failure of the transport or of a file never shows the sender Aborted,  *)
(* neither side has a file transferred, and when both sockets are down    *)
(* and nothing is posted both sides are Closed.                           *)
RequestRejected ==
    rcv.currentFile = CUR_NONE /\ rcv.status \in {"Closing", "Closed"}

AtRest ==
    /\ snd.sock = "Unconnected" /\ rcv.sock = "Unconnected"
    /\ snd.posted = <<>> /\ rcv.posted = <<>>

C16_RejectClosesPolitely ==
    (RequestRejected /\ env.clean) =>
        /\ snd.status # "Aborted"
        /\ snd.transferredFiles = 0 /\ rcv.transferredFiles = 0
        /\ AtRest => snd.status = "Closed" /\ rcv.status = "Closed"

(* C17: in a session whose only disturbance is a read of the source file  *)
(* that fails, or a source file found changed when the sender verifies it *)
(* before COMMIT, no side is ever Aborted; while the sender holds the     *)
(* file it rolled back, no COMMIT is on its way and either ROLLBK is on   *)
(* its way to the receiver or the receiver has marked that file Failed,   *)
(* left it and answered ROLLBK; the sender marks a file Failed only after *)
(* the receiver did; and when the session is at rest both sides are       *)
(* Closed with that one file Failed and every other file Transferred.     *)
FailedFiles(s) ==
    {i \in 1..Len(s.files) : s.files[i].status = "TransferFailed"}

OnlyFault(faults) ==
    env.events = 1 /\ env.fault \in faults

OneFileFailed ==
    /\ snd.status = "Closed" /\ rcv.status = "Closed"
    /\ Cardinality(FailedFiles(snd)) = 1
    /\ FailedFiles(rcv) = FailedFiles(snd)
    /\ \A i \in 1..Len(snd.files) \ FailedFiles(snd) :
           /\ snd.files[i].status = "Transferred"
           /\ rcv.files[i].status = "Transferred"
    /\ snd.skippedFiles = 1 /\ rcv.skippedFiles = 1

C17_ReadFailureRollsBack ==
    OnlyFault({"readFail", "readerChanged"}) =>
        /\ snd.status # "Aborted" /\ rcv.status # "Aborted"
        /\ (snd.fileInTransfer.present /\ snd.fileInTransfer.rollbacked) =>
               /\ ~Holds(wire["S"], "COMMIT") /\ ~Holds(rcv.inbuf, "COMMIT")
               /\ \/ /\ Holds(wire["S"], "ROLLBK") \/ Holds(rcv.inbuf, "ROLLBK")
                     /\ rcv.currentFile = snd.currentFile
                  \/ /\ FailedFiles(rcv) = {snd.currentFile + 1}
                     /\ rcv.currentFile = snd.currentFile + 1
                     /\ Holds(wire["R"], "ROLLBK") \/ Holds(snd.inbuf, "ROLLBK")
        /\ FailedFiles(snd) \subseteq FailedFiles(rcv)
        /\ AtRest => OneFileFailed

C17_Witness ==
    /\ OnlyFault({"readerChanged"})
    /\ AtRest
    /\ OneFileFailed
    /\ snd.transferredBytes = 2 * MAX_CHUNK_SIZE

(* C18: in a session whose only disturbance is a source file the sender   *)
(* cannot open, or finds changed, when it comes to it, no side is ever    *)
(* Aborted; while the sender holds the reader in error, either SKIP is on *)
(* its way to the receiver or the receiver has marked that file Failed,   *)
(* counted its size in the skipped bytes and answered REJECT; the sender  *)
(* marks a file Failed only after the receiver did; and at rest both      *)
(* sides are Closed with that one file Failed, its size in the skipped    *)
(* bytes of both, and every other file Transferred.                       *)
SkippedBytesAre(s, failed) ==
    \A i \in failed : s.skippedBytes = s.files[i].size

C18_UnreadableFileSkipped ==
    OnlyFault({"readerError"}) =>
        /\ snd.status # "Aborted" /\ rcv.status # "Aborted"
        /\ (snd.fileInTransfer.present /\ snd.fileInTransfer.error) =>
               /\ ~snd.fileInTransfer.transferStarted
               /\ ~Holds(wire["S"], "START") /\ ~Holds(rcv.inbuf, "START")
               /\ \/ /\ Holds(wire["S"], "SKIP") \/ Holds(rcv.inbuf, "SKIP")
                     /\ rcv.currentFile = snd.currentFile
                     /\ FailedFiles(rcv) = {}
                  \/ /\ FailedFiles(rcv) = {snd.currentFile + 1}
                     /\ rcv.currentFile = snd.currentFile + 1
                     /\ SkippedBytesAre(rcv, FailedFiles(rcv))
                     /\ Holds(wire["R"], "REJECT") \/ Holds(snd.inbuf, "REJECT")
        /\ FailedFiles(snd) \subseteq FailedFiles(rcv)
        /\ AtRest => /\ OneFileFailed
                     /\ SkippedBytesAre(rcv, FailedFiles(rcv))
                     /\ SkippedBytesAre(snd, FailedFiles(snd))

C18_Witness ==
    /\ OnlyFault({"readerError"})
    /\ AtRest
    /\ OneFileFailed
    /\ rcv.skippedBytes = 2 * MAX_CHUNK_SIZE
    /\ snd.skippedBytes = 2 * MAX_CHUNK_SIZE

(* C19: in a session whose only disturbance is a chunk the receiver       *)
(* cannot write, the receiver has written exactly one STOP, whatever      *)
(* chunks of the file came after the failure; no side is ever Aborted;    *)
(* the sender marks a file Failed only after the receiver did; and at     *)
(* rest both sides are Closed with that one file Failed and every other   *)
(* file Transferred.                                                      *)
C19_WriteFailureStopsOnce ==
    OnlyFault({"writeFail"}) =>
        /\ rcv.stopsSent = 1
        /\ snd.status # "Aborted" /\ rcv.status # "Aborted"
        /\ FailedFiles(snd) \subseteq FailedFiles(rcv)
        /\ AtRest => OneFileFailed

(* The failure met the first chunk, the second was dropped, and STOP      *)
(* reached the sender after it had sent the whole file.                   *)
C19_Witness ==
    /\ OnlyFault({"writeFail"})
    /\ AtRest
    /\ OneFileFailed
    /\ rcv.transferredBytes = 0
    /\ snd.transferredBytes = 2 * MAX_CHUNK_SIZE
    /\ snd.skippedBytes = 0

(* C20: a CHUNK whose declared length is at most MAX_CHUNK_SIZE leaves    *)
(* the receiver in transfer with its file neither committed nor lost: a   *)
(* length of 0 writes nothing, a length the file still has room for is    *)
(* written whole; a CHUNK whose declared length is above MAX_CHUNK_SIZE   *)
(* leaves the session Aborted, the file Failed and no file transferred,   *)
(* and nothing is committed afterwards.                                   *)
ChunkHandled(s, t, len) ==
    IF ULess(MAX_CHUNK_SIZE, len)
    THEN /\ t.status = "Aborted"
         /\ ~t.fileInTransfer.present
         /\ t.files[s.currentFile + 1].status = "TransferFailed"
         /\ t.transferredFiles = s.transferredFiles
         /\ t.transferredBytes = s.transferredBytes
    ELSE /\ t.status = "InTransfer"
         /\ t.fileInTransfer.present
         /\ ~t.fileInTransfer.committed
         /\ len = 0 =>
                /\ t.fileInTransfer.remainingBytes =
                       s.fileInTransfer.remainingBytes
                /\ t.transferredBytes = s.transferredBytes
         /\ (~s.fileInTransfer.error
             /\ len <= s.fileInTransfer.remainingBytes) =>
                /\ t.fileInTransfer.remainingBytes =
                       s.fileInTransfer.remainingBytes - len
                /\ t.transferredBytes = s.transferredBytes + len
                /\ ~t.fileInTransfer.error

C20_ChunkLengthBound ==
    [][/\ (env'.events = env.events + 1 /\ rcv.status = "InTransfer"
           /\ rcv.fileInTransfer.present) =>
              ChunkHandled(rcv, rcv', env'.length)
       /\ env'.violation =>
              rcv'.status = "Aborted" /\ rcv'.transferredFiles = 0]_vars

C20_Witness ==
    /\ env.violation
    /\ env.length = MAX_CHUNK_SIZE + 1
    /\ rcv.status = "Aborted"
    /\ rcv.transferredBytes = MAX_CHUNK_SIZE
    /\ rcv.files[1].status = "TransferFailed"

(* C21: at every point of a session the name of a file of the receiver    *)
(* never holds a part of the file: while the writer lives the name holds  *)
(* what it held when the writer was built, unless the writer committed;   *)
(* once the writer is gone the name holds the whole file exactly when the *)
(* file is Transferred, and otherwise what it held before (the file that  *)
(* was there, or nothing); and an Aborted session holds no writer.        *)
Before(f) == IF f.exists THEN "old" ELSE "absent"

RefusedPaths == {"/dir/file", "dir//file", "dir/../file", "../file"}

C22_NoFileOutsideBasePath ==
    /\ env.path \in RefusedPaths =>
           /\ rcv.status = "Aborted"
           /\ rcv.files = <<>> /\ rcv.disk = <<>>
           /\ rcv.request = "none"
           /\ ~rcv.fileInTransfer.present
    /\ (rcv.fileInTransfer.present /\ ~rcv.fileInTransfer.error) =>
           Inside(CurPath(rcv))
    /\ \A i \in 1..Len(rcv.disk) :
           rcv.disk[i] = "new" => Inside(rcv.files[i].path)

C22_Witness ==
    /\ env.path = "../file"
    /\ rcv.status = "Aborted"
    /\ rcv.files = <<>>
    /\ rcv.totalFiles = 1
    /\ rcv.totalBytes = MAX_CHUNK_SIZE

(* C23: at every point of a session the bytes transferred are at most the *)
(* bytes of the session, on the side of the sender and on the side of the *)
(* receiver.                                                              *)
C23_TransferredWithinTotal ==
    /\ snd.transferredBytes <= snd.totalBytes
    /\ rcv.transferredBytes <= rcv.totalBytes

(***************************************************************************)
(* The receiver of a peer that sends one file of one chunk under a path of *)
(* DupPaths, which the base path holds already, and whose user answers     *)
(* KeepBoth.  The base path holds besides some of the paths with a suffix: *)
(* any of the first MaxTaken as a file or as a directory, or the first     *)
(* UINT8 - 2 or UINT8 - 1 of them as files.                                *)
(***************************************************************************)
MaxTaken == 2

DupPaths == {"a.txt", "dir/file", ".bashrc", "archive.tar.gz"}

(* The path with the suffix _k between the name and the extension. *)
Beside(path, k) ==
    CASE path = "a.txt" -> "a_" \o ToString(k) \o ".txt"
      [] path = "dir/file" -> "dir/file_" \o ToString(k)
      [] path = ".bashrc" -> ".bashrc_" \o ToString(k)
      [] path = "archive.tar.gz" -> "archive_" \o ToString(k) \o ".tar.gz"

DupDisks(path) ==
    {[taken |-> {Beside(path, k) : k \in {i \in 1..MaxTaken : f[i] # "free"}},
      locked |-> {Beside(path, k) : k \in {i \in 1..MaxTaken : f[i] = "dir"}}] :
         f \in [1..MaxTaken -> {"free", "file", "dir"}]}
    \cup {[taken |-> {Beside(path, k) : k \in 1..n}, locked |-> {}] :
              n \in {UINT8 - 2, UINT8 - 1}}

DupChunks == {Cmd1("CHUNK", MAX_CHUNK_SIZE), Cmd("COMMIT")}

(* START for a file the base path holds. *)
DupStart ==
    /\ rcv.sock = "Connected"
    /\ rcv.status = "InTransfer"
    /\ Transition("R", rcv,
                  readData([rcv EXCEPT !.inbuf = Append(@, Cmd("START"))],
                           [o |-> "exists", n |-> 1]),
                  <<>>, eof["R"])
    /\ UNCHANGED env

(* The user answers KeepBoth to the request about the duplicated file. *)
DupDecide(all) ==
    /\ rcv.request = "duplicated"
    /\ Transition("R", rcv,
                  chosen([rcv EXCEPT !.request = "none"], "KeepBoth", all,
                         "ok"),
                  <<>>, eof["R"])
    /\ UNCHANGED env

DupInit ==
    /\ snd = Sender(<<>>, LOCAL_UUID_R)
    /\ \E path \in DupPaths : \E d \in DupDisks(path) :
           rcv = [Receiver EXCEPT !.status = "Connected",
                                  !.peerUuid = NULL_UUID,
                                  !.taken = d.taken, !.locked = d.locked]
    /\ net = NoNet
    /\ wire = [p \in Sides |-> <<>>]
    /\ eof = [p \in Sides |-> "none"]
    /\ users = NoUsers
    /\ env = [established |-> TRUE, events |-> 0, clean |-> FALSE,
              violation |-> FALSE, fault |-> "none", length |-> 0,
              objects |-> NoObjects, call |-> "none",
              path |-> FilePath]

DupNext ==
    \/ \E path \in DupPaths : ForgeRequest(<<MAX_CHUNK_SIZE>>, path)
    \/ AcceptForged
    \/ ForgedReadyRead
    \/ DupStart
    \/ \E all \in BOOLEAN : DupDecide(all)
    \/ \E c \in DupChunks : ForgeChunk(c)

DupSpec == DupInit /\ [][DupNext]_vars

(* The user answers the request about the duplicated file. *)
DupDecided == rcv.request = "duplicated" /\ rcv'.request = "none"

(* The suffixes under which the base path holds nothing. *)
FreeSuffixes == {k \in 1..(UINT8 - 1) : Beside(CurPath(rcv), k) \notin rcv.taken}

(* The suffixes up to the first free one, all of them if none is free. *)
TriedSuffixes ==
    IF FreeSuffixes = {} THEN 1..(UINT8 - 1) ELSE 1..first(FreeSuffixes)

(* The file goes to the path with suffix k: ACCEPT answers START, a writer *)
(* of a path that did not exist waits for the chunks, and the file the     *)
(* base path held is as it was.                                            *)
StoredBeside(k) ==
    /\ rcv'.currentFile = rcv.currentFile
    /\ rcv'.files[rcv.currentFile + 1] =
           [size |-> CurSize(rcv), status |-> "InTransfer",
            path |-> Beside(CurPath(rcv), k)]
    /\ rcv'.fileInTransfer.present
    /\ ~rcv'.fileInTransfer.exists /\ ~rcv'.fileInTransfer.error
    /\ rcv'.fileInTransfer.remainingBytes = CurSize(rcv)
    /\ rcv'.orig = "old"
    /\ rcv'.skippedFiles = rcv.skippedFiles

(* The file is rejected: it keeps its path, no writer is left, and the    *)
(* file the base path held is as it was.                                  *)
DupRejected ==
    /\ rcv'.files[rcv.currentFile + 1] =
           [size |-> CurSize(rcv), status |-> "TransferRejected",
            path |-> CurPath(rcv)]
    /\ ~rcv'.fileInTransfer.present
    /\ rcv'.disk[rcv.currentFile + 1] = "old"
    /\ rcv'.skippedFiles = rcv.skippedFiles + 1
    /\ rcv'.skippedBytes = rcv.skippedBytes + CurSize(rcv)

(* C24 as stated: with KeepBoth the file is stored under the first free    *)
(* name among basename_1, basename_2, ... with its extension, the file     *)
(* that is there stays as it is, and the file is rejected if none of the   *)
(* UINT8 - 1 names is free.                                                *)
C24_KeepBothFirstFree ==
    [][DupDecided =>
           IF FreeSuffixes = {} THEN DupRejected
           ELSE StoredBeside(first(FreeSuffixes))]_vars

(* C24, amended: with KeepBoth the file is stored under the first free     *)
(* name among basename_1, basename_2, ... with its extension, unless a     *)
(* writer cannot be opened on one of the names tried up to it (a           *)
(* directory, a file that cannot be written); the file is rejected in that *)
(* case and when none of the UINT8 - 1 names is free; the file that is     *)
(* there stays as it is in every case.                                     *)
C24_KeepBothFirstFreeUnlessError ==
    [][DupDecided =>
           IF \E k \in TriedSuffixes : Beside(CurPath(rcv), k) \in rcv.locked
           THEN DupRejected
           ELSE IF FreeSuffixes = {} THEN DupRejected
           ELSE StoredBeside(first(FreeSuffixes))]_vars

(* a.txt came while the base path held a.txt and a_1.txt: it is stored    *)
(* whole as a_2.txt.                                                       *)
C24_Witness ==
    /\ "a_1.txt" \in rcv.taken
    /\ "a_2.txt" \notin rcv.taken
    /\ rcv.locked = {}
    /\ env.path = "a.txt"
    /\ rcv.files = <<[size |-> MAX_CHUNK_SIZE, status |-> "Transferred",
                      path |-> "a_2.txt"]>>
    /\ rcv.disk = <<"new">>
    /\ rcv.orig = "old"
    /\ rcv.transferredFiles = 1

(***************************************************************************)
(* SyfftProtocolSharingRequest and SyfftProtocolDuplicatedFile.  A method  *)
(* gives the object after the call, the receiver after the slot connected  *)
(* to the signal it emitted ran, and whether it emitted one.               *)
(***************************************************************************)
Ignored(obj, s) == [obj |-> obj, rcv |-> s, emitted |-> FALSE]

Emit(obj, s) ==
    [obj |-> [obj EXCEPT !.m_chosen = TRUE], rcv |-> s, emitted |-> TRUE]

accept(obj, s) ==
    IF ~obj.m_chosen
    THEN Emit(obj, acceptSharingRequest([s EXCEPT !.request = "none"], "ok"))
    ELSE Ignored(obj, s)

(* reject emitting the signal whatever m_chosen. *)
reject_EveryTime(obj, s) ==
    Emit(obj, rejectSharingRequest([s EXCEPT !.request = "none"]))

reject(obj, s) ==
    IF ~obj.m_chosen
    THEN Emit(obj, rejectSharingRequest([s EXCEPT !.request = "none"]))
    ELSE Ignored(obj, s)

replace(obj, s, all) ==
    IF ~obj.m_chosen
    THEN Emit(obj, chosen([s EXCEPT !.request = "none"], "Replace", all,
                          "ok"))
    ELSE Ignored(obj, s)

keep(obj, s, all) ==
    IF ~obj.m_chosen
    THEN Emit(obj, chosen([s EXCEPT !.request = "none"], "Keep", all, "ok"))
    ELSE Ignored(obj, s)

keepBoth(obj, s, all) ==
    IF ~obj.m_chosen
    THEN Emit(obj, chosen([s EXCEPT !.request = "none"], "KeepBoth", all,
                          "ok"))
    ELSE Ignored(obj, s)

(* ~SyfftProtocolSharingRequest and ~SyfftProtocolDuplicatedFile. *)
destroySharingRequest(obj, s) ==
    [reject(obj, s) EXCEPT !.obj.alive = FALSE]

destroyDuplicatedFile(obj, s) ==
    [keep(obj, s, FALSE) EXCEPT !.obj.alive = FALSE]

(***************************************************************************)
(* The receiver of a peer that sends one file the base path holds, and a   *)
(* user that calls the methods of the two objects it was handed, up to     *)
(* MaxCalls times in all and in any order, and lets go of them.            *)
(* env.objects holds the objects, env.events the number of calls and       *)
(* env.call the last method called.                                        *)
(***************************************************************************)
MaxCalls == 3

NewObject == [alive |-> TRUE, m_chosen |-> FALSE]

(* shareCommand builds the SyfftProtocolSharingRequest. *)
DecRequest ==
    LET share == Cmd2("SHARE", 1, MAX_CHUNK_SIZE)
    IN  /\ rcv.status = "Connected"
        /\ Transition("R", rcv,
                      readData([rcv EXCEPT
                                   !.inbuf =
                                       <<share,
                                         Item(MAX_CHUNK_SIZE, FilePath),
                                         share>>],
                               Quiet),
                      <<>>, eof["R"])
        /\ env' = [env EXCEPT !.objects.sharing = NewObject]

(* startCommand builds the SyfftProtocolDuplicatedFile. *)
DecStart ==
    /\ rcv.sock = "Connected"
    /\ rcv.status = "InTransfer"
    /\ ~rcv.fileInTransfer.present
    /\ Transition("R", rcv,
                  readData([rcv EXCEPT !.inbuf = Append(@, Cmd("START"))],
                           [o |-> "exists", n |-> 1]),
                  <<>>, eof["R"])
    /\ env' = [env EXCEPT !.objects.duplicated = NewObject]

(* The user calls the method name of the object, with the result r. *)
Call(kind, name, r) ==
    /\ env.objects[kind].alive
    /\ env.events < MaxCalls
    /\ IF r.emitted THEN Transition("R", rcv, r.rcv, <<>>, eof["R"])
       ELSE UNCHANGED <<snd, rcv, wire, eof, users, net>>
    /\ env' = [env EXCEPT !.objects[kind] = r.obj, !.events = @ + 1,
                          !.call = name]

DecInit ==
    /\ snd = Sender(<<>>, LOCAL_UUID_R)
    /\ rcv = [Receiver EXCEPT !.status = "Connected",
                              !.peerUuid = NULL_UUID]
    /\ net = NoNet
    /\ wire = [p \in Sides |-> <<>>]
    /\ eof = [p \in Sides |-> "none"]
    /\ users = NoUsers
    /\ env = [established |-> TRUE, events |-> 0, clean |-> FALSE,
              violation |-> FALSE, fault |-> "none", length |-> 0,
              objects |-> NoObjects, call |-> "none", path |-> FilePath]

DecNext ==
    \/ DecRequest
    \/ Call("sharing", "accept", accept(env.objects.sharing, rcv))
    \/ Call("sharing", "reject", reject(env.objects.sharing, rcv))
    \/ Call("sharing", "destroySharingRequest",
            destroySharingRequest(env.objects.sharing, rcv))
    \/ ForgedReadyRead
    \/ DecStart
    \/ \E all \in BOOLEAN :
           Call("duplicated", "replace",
                replace(env.objects.duplicated, rcv, all))
    \/ \E all \in BOOLEAN :
           Call("duplicated", "keep", keep(env.objects.duplicated, rcv, all))
    \/ \E all \in BOOLEAN :
           Call("duplicated", "keepBoth",
                keepBoth(env.objects.duplicated, rcv, all))
    \/ Call("duplicated", "destroyDuplicatedFile",
            destroyDuplicatedFile(env.objects.duplicated, rcv))

DecSpec == DecInit /\ [][DecNext]_vars

(* The user called a method of one of the two objects. *)
Called(names) == env'.events = env.events + 1 /\ env'.call \in names

(* The object the method called belongs to, before the call. *)
CalledObject ==
    IF env'.call \in {"accept", "reject", "destroySharingRequest"}
    THEN env.objects.sharing
    ELSE env.objects.duplicated

(* The file of the session after the call. *)
FileAfter == rcv'.files[1]

(* C25: a call on a decision object that already holds a decision changes  *)
(* nothing in the session; the first call decides, and letting go of an    *)
(* object that holds no decision decides as reject for a sharing request   *)
(* (every file skipped, the connection closed) and as keep, for this file  *)
(* only, for a duplicated file (the file rejected, the file of the base    *)
(* path as it was).                                                        *)
C25_FirstDecisionWins ==
    [][Called({"accept", "reject", "destroySharingRequest", "replace",
               "keep", "keepBoth", "destroyDuplicatedFile"}) =>
           IF CalledObject.m_chosen
           THEN UNCHANGED <<snd, rcv, wire, eof>>
           ELSE /\ rcv.status = "PausedByUser"
                /\ rcv'.request = "none"
                /\ Called({"accept"}) =>
                       /\ rcv'.status = "InTransfer"
                       /\ rcv'.currentFile = 0
                       /\ rcv'.skippedFiles = 0
                /\ Called({"reject", "destroySharingRequest"}) =>
                       /\ rcv'.status = "Closing"
                       /\ rcv'.sock = "Closing"
                       /\ rcv'.skippedFiles = rcv.totalFiles
                       /\ rcv'.skippedBytes = rcv.totalBytes
                /\ Called({"replace"}) =>
                       /\ FileAfter.status = "InTransfer"
                       /\ FileAfter.path = FilePath
                       /\ rcv'.fileInTransfer.exists
                /\ Called({"keepBoth"}) =>
                       /\ FileAfter.status = "InTransfer"
                       /\ FileAfter.path = "dir/file_1"
                       /\ ~rcv'.fileInTransfer.exists
                /\ Called({"keep", "destroyDuplicatedFile"}) =>
                       /\ FileAfter.status = "TransferRejected"
                       /\ FileAfter.path = FilePath
                       /\ rcv'.disk = <<"old">>
                       /\ rcv'.skippedFiles = 1
                /\ Called({"destroyDuplicatedFile"}) =>
                       rcv'.defaultDFAction = "Ask"]_vars

(* The user accepted the sharing request, called another method, and let  *)
(* go of the SyfftProtocolDuplicatedFile with no decision: the file of    *)
(* the base path was kept.                                                 *)
C25_Witness ==
    /\ env.events = 3
    /\ env.call = "destroyDuplicatedFile"
    /\ env.objects.sharing.m_chosen
    /\ env.objects.duplicated = [alive |-> FALSE, m_chosen |-> TRUE]
    /\ rcv.files = <<[size |-> MAX_CHUNK_SIZE, status |-> "TransferRejected",
                      path |-> FilePath]>>
    /\ rcv.disk = <<"old">>
    /\ rcv.defaultDFAction = "Ask"

(***************************************************************************)
(* The PeersList and the LocalUser in front of the datagrams of the        *)
(* network, the timer of the ages and the user who changes the mode.  The  *)
(* list starts empty or with the peer "u2" read from the file, which is    *)
(* unconfirmed.                                                            *)
(***************************************************************************)
StoredPeer ==
    [known |-> TRUE, firstName |-> "Bob", lastName |-> "Lee", addr |-> 1,
     m_age |-> AgeUnconfirmed]

(* SyfdProtocol::datagramReceived, connected to PeersList::update. *)
(* new and ok matter only when the datagram makes the local user change   *)
(* its UUID.                                                              *)
DatagramReceived(datagram, new, ok) ==
    /\ ~users.m_instances[new].known
    /\ \/ /\ ~datagram.flagQuit
          /\ ~users.m_instances[datagram.uuid].known
          /\ users.me.uuid = datagram.uuid
       \/ new = users.me.uuid /\ ok
    /\ users' = update(users, datagram, new, ok)
    /\ UNCHANGED <<snd, rcv, wire, eof, env, net>>

(* The timeout of m_timerAge. *)
TimerAge ==
    /\ users' = incrementAge(users)
    /\ UNCHANGED <<snd, rcv, wire, eof, env, net>>

(* The user asks for the other mode. *)
UserSetMode(mode, ok) ==
    /\ users.me.m_mode # mode
    /\ users' = [users EXCEPT !.me = setMode(users.me, mode, ok).me,
                              !.signals = setMode(users.me, mode, ok).signals,
                              !.resetIn = "none",
                              !.input = [kind |-> "setMode"]]
    /\ UNCHANGED <<snd, rcv, wire, eof, env, net>>

UserInit ==
    /\ snd = Sender(<<>>, LOCAL_UUID_R)
    /\ rcv = Receiver
    /\ net = NoNet
    /\ wire = [p \in Sides |-> <<>>]
    /\ eof = [p \in Sides |-> "none"]
    /\ env = [established |-> FALSE, events |-> 0, clean |-> FALSE,
              violation |-> FALSE, fault |-> "none", length |-> 0,
              objects |-> NoObjects, call |-> "none", path |-> FilePath]
    /\ \E stored \in {NoPeer, StoredPeer} :
           users = [NoUsers EXCEPT !.m_instances["u2"] = stored]

UserNext ==
    \/ \E datagram \in Datagrams, new \in Uuids, ok \in BOOLEAN :
           DatagramReceived(datagram, new, ok)
    \/ TimerAge
    \/ \E mode \in {"Online", "Offline"}, ok \in BOOLEAN :
           UserSetMode(mode, ok)

UserSpec == UserInit /\ [][UserNext]_vars

(* The timeout of m_timerAge ran. *)
Aged == users'.input.kind = "tick"

(* peerExpired was emitted n times for the UUID by the handler that ran. *)
Expired(uuid, n) ==
    Cardinality({i \in 1..Len(users'.signals) :
                     users'.signals[i] = <<"peerExpired", uuid>>}) = n

(* The ages went up k times since the last datagram of the peer, which is *)
(* still confirmed: m_age is 0 at a datagram and goes up by one each time. *)
Silent(uuid, k) ==
    /\ users.m_instances[uuid].known
    /\ users.m_instances[uuid].m_age = k

(* C26: a peer from which no datagram comes becomes unconfirmed, with one  *)
(* peerExpired, when the ages go up for the AgeMax-th time (the 4th) after *)
(* its last datagram, and stays in the list.                               *)
C26_ExpiresAtFourthTick ==
    [][Aged =>
           \A uuid \in Uuids :
               Silent(uuid, AgeMax - 1) =>
                   /\ users'.m_instances[uuid].known
                   /\ unconfirmed(users'.m_instances[uuid])
                   /\ Expired(uuid, 1)]_vars

(* The signal was emitted n times for the UUID by the handler that ran. *)
Signalled(name, uuid, n) ==
    Cardinality({i \in 1..Len(users'.signals) :
                     users'.signals[i] = <<name, uuid>>}) = n

(* The peer is in the list and confirmed. *)
confirmed(peer) == peer.known /\ ~unconfirmed(peer)

(* The handler that ran was given a datagram of the UUID without the quit *)
(* flag.                                                                  *)
Beacon(uuid) ==
    /\ users'.input.kind = "datagram"
    /\ ~users'.input.d.flagQuit
    /\ users'.input.d.uuid = uuid

(* C27: a handler emits peerExpired for a peer once when it takes the peer *)
(* from confirmed to unconfirmed, by the ages or by a datagram with the    *)
(* quit flag, and not at all otherwise (the peer was unconfirmed already   *)
(* or is not in the list); the next datagram without the quit flag of an   *)
(* unconfirmed peer confirms it and emits peerAdded once.                  *)
C27_ExpiredOncePerExpiry ==
    [][\A uuid \in Uuids :
           /\ IF /\ confirmed(users.m_instances[uuid])
                 /\ ~confirmed(users'.m_instances[uuid])
              THEN /\ Signalled("peerExpired", uuid, 1)
                   /\ users'.m_instances[uuid].known
                   /\ users'.input.kind \in {"tick", "datagram"}
              ELSE Signalled("peerExpired", uuid, 0)
           /\ (/\ users.m_instances[uuid].known
               /\ unconfirmed(users.m_instances[uuid])
               /\ Beacon(uuid)) =>
                  /\ confirmed(users'.m_instances[uuid])
                  /\ Signalled("peerAdded", uuid, 1)]_vars

(* A datagram with the quit flag made a confirmed peer unconfirmed. *)
C27_Witness ==
    /\ users.input.kind = "datagram"
    /\ users.input.d.flagQuit
    /\ users.input.d.uuid = "u2"
    /\ users.signals = Signal("peerExpired", "u2")
    /\ unconfirmed(users.m_instances["u2"])

(* The number of times the signal is in the sequence for the UUID. *)
Count(signals, name, uuid) ==
    Cardinality({i \in 1..Len(signals) : signals[i] = <<name, uuid>>})

(* The list after the datagram the handler that ran was given is given to  *)
(* PeersList::update once more.                                            *)
Again(new, ok) == update(users', users'.input.d, new, ok)

(* C28: the same datagram without the quit flag handled twice in a row     *)
(* leaves the local user and the peers as the first time left them, emits  *)
(* peerAdded at most once over the two times and no peerUpdated the second *)
(* time.                                                                   *)
C28_SameBeaconTwice ==
    [][\A uuid \in Uuids, new \in Uuids, ok \in BOOLEAN :
           (Beacon(uuid) /\ ~users'.m_instances[new].known) =>
               /\ Again(new, ok).me = users'.me
               /\ Again(new, ok).m_instances = users'.m_instances
               /\ Count(users'.signals \o Again(new, ok).signals,
                        "peerAdded", uuid) <= 1
               /\ Count(Again(new, ok).signals, "peerUpdated", uuid) = 0]_vars

(* The handler that ran was given a datagram without the quit flag under   *)
(* the UUID of the local user.                                             *)
Collision == Beacon(users.me.uuid)

KnownUuids(u) == {uuid \in Uuids : u.m_instances[uuid].known}

(* The signals of a local user that goes Offline and comes back to the     *)
(* mode it was in.                                                         *)
OffAndBack(mode) ==
    IF mode = "Offline" THEN <<>>
    ELSE <<<<"modeChanged", "Offline">>, <<"modeChanged", mode>>>>

Restarted ==
    users.me.m_mode = "Online" => users'.me.m_mode = "Online"

SameNames ==
    /\ users'.input.d.firstName = users.me.firstName
    /\ users'.input.d.lastName = users.me.lastName

(* The datagram tells something new of the peer: the peer was not in the   *)
(* list or was unconfirmed, or its names or its address were others.       *)
News(uuid) ==
    \/ ~confirmed(users.m_instances[uuid])
    \/ users.m_instances[uuid].firstName # users'.input.d.firstName
    \/ users.m_instances[uuid].lastName # users'.input.d.lastName
    \/ users.m_instances[uuid].addr # users'.input.d.addr

(* C30: every datagram without the quit flag of a peer (its UUID is not    *)
(* that of the local user) that has the names of the local user makes the  *)
(* handler emit duplicatedNameDetected for the UUID of the peer.           *)
C30_DuplicateOnEveryBeacon ==
    [][\A uuid \in Uuids :
           (Beacon(uuid) /\ uuid # users.me.uuid /\ SameNames) =>
               Signalled("duplicatedNameDetected", uuid, 1)]_vars

(* C30 for the datagrams that tell something new of the peer: such a       *)
(* datagram with the names of the local user makes the handler emit        *)
(* duplicatedNameDetected once for the peer, after peerAdded or            *)
(* peerUpdated; any other datagram of a peer emits none.                   *)
C30_DuplicateOnNews ==
    [][\A uuid \in Uuids :
           (Beacon(uuid) /\ uuid # users.me.uuid) =>
               IF SameNames /\ News(uuid)
               THEN /\ Len(users'.signals) = 2
                    /\ users'.signals[1][1] \in {"peerAdded", "peerUpdated"}
                    /\ users'.signals[2] = <<"duplicatedNameDetected", uuid>>
               ELSE \A other \in Uuids :
                        Signalled("duplicatedNameDetected", other, 0)]_vars

(* A known and confirmed peer took the names of the local user. *)
C30_Witness ==
    /\ users.input.kind = "datagram"
    /\ users.input.d.uuid = "u2"
    /\ users.input.d.firstName = users.me.firstName
    /\ users.input.d.lastName = users.me.lastName
    /\ users.signals = Signal("peerUpdated", "u2")
                       \o Signal("duplicatedNameDetected", "u2")
    /\ users.me.uuid = "u1"

PauseStatus == {"PausedByUser", "PausedByPeer"}

(* C35: the stack of the old statuses of a session holds a status exactly  *)
(* when the status of the session is PausedByUser or PausedByPeer, and it  *)
(* holds neither of the two more than once.                                *)
C35_StackWhilePaused ==
    \A p \in Sides :
        /\ Side(p).oldStatusStack # <<>> <=> Side(p).status \in PauseStatus
        /\ \A i, j \in 1..Len(Side(p).oldStatusStack) :
               (i # j /\ Side(p).oldStatusStack[i] \in PauseStatus) =>
                   Side(p).oldStatusStack[i] # Side(p).oldStatusStack[j]

(***************************************************************************)
(* The answer to the sharing request reaching the sender in two segments.  *)
(* The receiver writes the command byte and the message, a QByteArray      *)
(* (receiver, acceptSharingRequest and rejectSharingRequest); the first    *)
(* segment holds the command and the message but for its last byte, the    *)
(* second that byte.  Partial(c) is the command in the buffer of the       *)
(* socket with its message short, and Rest(c, code) the byte in flight,    *)
(* which read as a command byte is code: ABORT for the last byte of the    *)
(* length of an empty message, PAUSE for the character 0, UNKNOWN for a    *)
(* letter.                                                                 *)
(***************************************************************************)
Partial(c) == [c EXCEPT !.b = 1]

Rest(c, code) == [c EXCEPT !.a = 1, !.path = code]

RestCodes == {"ABORT", "PAUSE", "UNKNOWN"}

Replies == {"ACCEPT", "REJECT"}

isRest(c) == c.c \in Replies /\ c.a = 1

isPartial(c) == c.c \in Replies /\ c.b = 1

(* No byte of a message is in flight on its own. *)
NoRest == \A i \in 1..Len(wire["R"]) : ~isRest(wire["R"][i])

(* The commands reach the sender whole. *)
DeliverWhole == NoRest /\ Deliver("S")

(* The first segment of the answer to the sharing request reaches the     *)
(* socket of the sender, which emits readyRead.                           *)
DeliverPart ==
    /\ snd.sock = "Connected"
    /\ snd.currentFile = CUR_NONE
    /\ wire["R"] # <<>>
    /\ Head(wire["R"]).c \in Replies
    /\ NoRest
    /\ \E code \in RestCodes, x \in Inputs("S") :
           LET s1 == [snd EXCEPT !.inbuf =
                                     Append(@, Partial(Head(wire["R"])))]
               rest == <<Rest(Head(wire["R"]), code)>> \o Tail(wire["R"])
           IN  Run("S", snd, readData(s1, x), readData(s1, Ok(x)), rest,
                   x.o)

(* The bytes of the second segment join those the socket still holds: the *)
(* message of a command not yet read is whole, and otherwise the byte is  *)
(* the next one to read.                                                  *)
Joined(inbuf, rest) ==
    IF \E i \in 1..Len(inbuf) : isPartial(inbuf[i])
    THEN [i \in 1..Len(inbuf) |->
              IF isPartial(inbuf[i]) THEN Cmd(inbuf[i].c) ELSE inbuf[i]]
    ELSE Append(inbuf, Cmd(rest.path))

(* The second segment reaches the socket of the sender. *)
DeliverRest ==
    /\ snd.sock = "Connected"
    /\ wire["R"] # <<>>
    /\ isRest(Head(wire["R"]))
    /\ \E x \in Inputs("S") :
           LET s1 == [snd EXCEPT !.inbuf = Joined(@, Head(wire["R"]))]
           IN  Run("S", snd, readData(s1, x), readData(s1, Ok(x)),
                   Tail(wire["R"]), x.o)

ReplyNext ==
    \/ S_SendFiles
    \/ S_SocketConnected
    \/ R_AcceptConnection
    \/ Deliver("R")
    \/ DeliverWhole
    \/ DeliverPart
    \/ DeliverRest
    \/ R_DecideShare
    \/ \E enter \in BOOLEAN : UserPause("S", enter)
    \/ ReadyReadTimer("S")

ReplySpec == Init /\ [][ReplyNext]_vars

(* The first segment of an answer reached the sender. *)
PartArrived == NoRest /\ ~NoRest'

(* C36: when the answer to the sharing request reaches the sender with    *)
(* its message short, the sender keeps its status and its counters,       *)
(* writes nothing and leaves the command in the buffer of its socket      *)
(* until the rest is there.                                               *)
C36_ReplyReadWhole ==
    [][PartArrived =>
           /\ snd'.status = snd.status
           /\ snd'.currentFile = snd.currentFile
           /\ snd'.skippedFiles = snd.skippedFiles
           /\ wire'["S"] = wire["S"]
           /\ snd'.inbuf # <<>>
           /\ isPartial(Last(snd'.inbuf))]_vars

(***************************************************************************)
(* A sender and the PeerUser it was built from.  The PeerUser lives in the *)
(* thread of the PeersList and the sender in the thread of the senders:    *)
(* the slot newSyfftInstance connects to the signal updated is queued and  *)
(* reads m_age and the addresses of the PeerUser when it runs.  An entry   *)
(* of queued keeps, beside what the code passes on (status, addr), what    *)
(* the PeerUser was when the signal was emitted (emitted).                 *)
(***************************************************************************)
SessionPeer == "u2"

MaxQueued == 2

PeerStatus(peer) == IF unconfirmed(peer) THEN "Offline" ELSE "Online"

Told(peer) == [status |-> PeerStatus(peer), addr |-> peer.addr]

Queued(kind, status, addr, emitted) ==
    [kind |-> kind, status |-> status, addr |-> addr, emitted |-> emitted]

(* The PeerUser of the session emitted updated in the handler that ran. *)
PeerUpdated(u) ==
    \E i \in 1..Len(u.signals) :
        /\ u.signals[i][1] \in {"peerAdded", "peerUpdated", "peerExpired"}
        /\ u.signals[i][2] = SessionPeer

(* A handler of the PeersList ran and left the list as u. *)
Registry(u) ==
    /\ Len(snd.queued) < MaxQueued
    /\ users' = u
    /\ snd' = IF PeerUpdated(u)
              THEN [snd EXCEPT !.queued =
                        Append(@, Queued("updated", "none", 0,
                                         Told(u.m_instances[SessionPeer])))]
              ELSE snd
    /\ UNCHANGED <<rcv, wire, eof, env, net>>

(* The datagrams of the peer: what the list holds, another name, another  *)
(* address, and the quit flag.                                            *)
PeerDatagrams ==
    {Datagram(SessionPeer, FALSE, <<"Bob", "Lee">>, 1),
     Datagram(SessionPeer, FALSE, <<"Ann", "Lee">>, 1),
     Datagram(SessionPeer, FALSE, <<"Bob", "Lee">>, 2),
     Datagram(SessionPeer, TRUE, <<"Bob", "Lee">>, 1)}

(* A datagram of the peer of the session is received. *)
PeerDatagram(datagram) ==
    Registry(update(users, datagram, users.me.uuid, TRUE))

(* The timeout of m_timerAge. *)
PeerAged == Registry(incrementAge(users))

(* The thread of the sender is inside the slot connected to updated. *)
InSlot(s) == s.queued # <<>> /\ Head(s.queued).kind = "address?"

(* The slot connected to updated starts: it reads m_age and calls          *)
(* updatePeerStatus, which posts a lambda.                                 *)
SlotReadsAge ==
    /\ snd.status # "New"
    /\ snd.queued # <<>>
    /\ Head(snd.queued).kind = "updated"
    /\ snd' = [snd EXCEPT !.queued =
                  <<[Head(@) EXCEPT !.kind = "address?"]>> \o Tail(@)
                  \o <<Queued("status",
                              PeerStatus(users.m_instances[SessionPeer]),
                              0, Head(@).emitted)>>]
    /\ UNCHANGED <<rcv, wire, eof, env, users, net>>

(* The slot goes on: it reads the address and the port and calls          *)
(* updatePeerAddress, which posts a lambda.                                *)
SlotReadsAddress ==
    /\ InSlot(snd)
    /\ snd' = [snd EXCEPT !.queued =
                  Tail(@)
                  \o <<Queued("address", "none",
                              users.m_instances[SessionPeer].addr,
                              Head(@).emitted)>>]
    /\ UNCHANGED <<rcv, wire, eof, env, users, net>>

(* The lambda of SyfftProtocolSender::updatePeerStatus. *)
updatePeerStatus(s, peerStatus) ==
    IF s.m_peerStatus = peerStatus THEN s
    ELSE abortConnection([s EXCEPT !.m_peerStatus = peerStatus])

(* The lambda of SyfftProtocolSender::updatePeerAddress. *)
updatePeerAddress(s, address) ==
    IF s.m_peerAddress = address THEN s
    ELSE abortConnection([s EXCEPT !.m_peerAddress = address])

(* A lambda posted by updatePeerStatus or updatePeerAddress runs. *)
RunLambda(kind) ==
    /\ snd.queued # <<>>
    /\ Head(snd.queued).kind = kind
    /\ LET s == [snd EXCEPT !.queued = Tail(@)]
       IN  Step("S", snd,
                IF kind = "status"
                THEN updatePeerStatus(s, Head(snd.queued).status)
                ELSE updatePeerAddress(s, Head(snd.queued).addr))
    /\ UNCHANGED env

(* The PeersList holds the peer of the session, confirmed, and the sender  *)
(* newSyfftInstance built from it was given files to send.                 *)
PeerInit ==
    /\ snd = Sender(<<>>, LOCAL_UUID_R)
    /\ rcv = Receiver
    /\ net = NoNet
    /\ wire = [p \in Sides |-> <<>>]
    /\ eof = [p \in Sides |-> "none"]
    /\ env = [established |-> FALSE, events |-> 0, clean |-> TRUE,
              violation |-> FALSE, fault |-> "none", length |-> 0,
              objects |-> NoObjects, call |-> "none", path |-> FilePath]
    /\ users = [NoUsers EXCEPT
                   !.m_instances[SessionPeer] =
                       PeerUser(Datagram(SessionPeer, FALSE,
                                         <<"Bob", "Lee">>, 1))]

(* The handlers of the sender run one at a time in its thread, the lambda *)
(* of sendFiles before the slots queued after it.                         *)
PeerNext ==
    \/ S_SendFiles
    \/ ~InSlot(snd) /\ S_SocketConnected
    \/ R_AcceptConnection
    \/ ~InSlot(snd) /\ Deliver("S")
    \/ Deliver("R")
    \/ R_DecideShare
    \/ SockReset("R")
    \/ \E datagram \in PeerDatagrams : PeerDatagram(datagram)
    \/ PeerAged
    \/ SlotReadsAge
    \/ SlotReadsAddress
    \/ \E kind \in {"status", "address"} : RunLambda(kind)

PeerSpec == PeerInit /\ [][PeerNext]_vars

Established(s) == s.status \notin {"New", "Closed", "Aborted"}

(* A lambda of the kind is about to run: the entry it was queued with. *)
Entry == Head(snd.queued)

Runs(kind) ==
    /\ snd.queued # <<>>
    /\ Entry.kind = kind
    /\ snd'.queued = Tail(snd.queued)

(* C37: a sender with a live session aborts it when it handles the report *)
(* that its peer became unconfirmed or that the address of its peer is    *)
(* another one than the one it holds, and keeps the status of its session *)
(* when the report tells neither.                                         *)
C37_AbortedOnPeerChange ==
    [][/\ (Runs("status") /\ Established(snd)) =>
              IF Entry.emitted.status = "Offline"
              THEN snd'.status = "Aborted"
              ELSE snd'.status = snd.status
       /\ (Runs("address") /\ Established(snd)) =>
              IF Entry.emitted.addr # snd.m_peerAddress
              THEN snd'.status = "Aborted"
              ELSE snd'.status = snd.status]_vars


(***************************************************************************)
(* The SyfdProtocol on its own: its slots are called and its timer fires   *)
(* in any order, writeDatagram succeeds or fails.                          *)
(***************************************************************************)
Modes == {"Online", "Offline"}

Oks == [1..MaxWrites -> BOOLEAN]

(* A handler of the protocol is entered: the history starts again. *)
SyfdEnter(name, mode, emitSignal, oks) ==
    [net.syfd EXCEPT !.log = <<>>, !.oks = oks,
                     !.call = [name |-> name, mode |-> mode,
                               emitSignal |-> emitSignal]]

(* The handler returns, the protocol left as p. *)
SyfdLeave(p) ==
    /\ net.syfd.fails < MaxFails
    /\ net.syfd.row < MaxFails
    /\ net.syfd.m_errorCount < MaxFails
    /\ net' = [net EXCEPT !.syfd =
                   [p EXCEPT !.oks = <<>>,
                             !.fails = Fails(@, p.log, TRUE),
                             !.row = Fails(@, p.log, FALSE)]]
    /\ UNCHANGED <<snd, rcv, wire, eof, env, users>>

SyfdStart(mode, ok, oks) ==
    SyfdLeave(D_start(SyfdEnter("start", mode, TRUE, oks), mode, ok))

SyfdStop(oks) ==
    SyfdLeave(D_stop(SyfdEnter("stop", "Offline", TRUE, oks)))

SyfdSetMode(mode, emitSignal, oks) ==
    SyfdLeave(D_setMode(SyfdEnter("setMode", mode, emitSignal, oks),
                        mode, emitSignal))

SyfdUpdateDatagram(ok) ==
    SyfdLeave(D_updateDatagram(SyfdEnter("updateDatagram", "none", FALSE,
                                         <<>>), ok))

(* The timeout of m_timer, connected by start and disconnected by stop. *)
SyfdTimeout(oks) ==
    /\ net.syfd.timer
    /\ net.syfd.connected
    /\ SyfdLeave(D_sendBufferedDatagram(
                     SyfdEnter("timeout", "none", FALSE, oks)))

SyfdInit ==
    /\ snd = Sender(<<>>, LOCAL_UUID_R)
    /\ rcv = Receiver
    /\ net = NoNet
    /\ wire = [p \in Sides |-> <<>>]
    /\ eof = [p \in Sides |-> "none"]
    /\ env = [established |-> FALSE, events |-> 0, clean |-> TRUE,
              violation |-> FALSE, fault |-> "none", length |-> 0,
              objects |-> NoObjects, call |-> "none", path |-> FilePath]
    /\ users = NoUsers

SyfdNext ==
    \/ \E mode \in Modes, ok \in BOOLEAN, oks \in Oks :
           SyfdStart(mode, ok, oks)
    \/ \E oks \in Oks : SyfdStop(oks)
    \/ \E mode \in Modes, emitSignal \in BOOLEAN, oks \in Oks :
           SyfdSetMode(mode, emitSignal, oks)
    \/ \E ok \in BOOLEAN : SyfdUpdateDatagram(ok)
    \/ \E oks \in Oks : SyfdTimeout(oks)

SyfdSpec == SyfdInit /\ [][SyfdNext]_vars

(* What the handler that ran last did. *)
InLog(entry) == \E i \in 1..Len(net.syfd.log) : net.syfd.log[i] = entry

Times(entry) ==
    Cardinality({i \in 1..Len(net.syfd.log) : net.syfd.log[i] = entry})

Wrote(ok) == InLog(<<"write", FALSE, ok>>) \/ InLog(<<"write", TRUE, ok>>)

(* C31 as stated: the handler emits error, the protocol then Offline,      *)
(* exactly when a write of it fails as the third failed write in a row,    *)
(* no write having succeeded in between; a handler whose write succeeded   *)
(* leaves the count of failures at zero.                                   *)
C31_ErrorAtThirdInARow ==
    [][/\ InLog(<<"error">>)' <=>
              (Wrote(FALSE)' /\ net.syfd.row = ERROR_THRESHOLD - 1)
       /\ InLog(<<"error">>)' => net'.syfd.m_mode = "Offline"
       /\ Wrote(TRUE)' => net'.syfd.m_errorCount = 0]_vars

(* C31: the handler emits error, the protocol then Offline, exactly when a *)
(* write of it fails as the third failed write in a row with no write that *)
(* succeeded and no change of mode in between; a handler whose write       *)
(* succeeded, or that changed the mode, leaves the count of failures at    *)
(* zero.                                                                   *)
C31_ErrorAtThirdFailure ==
    [][/\ InLog(<<"error">>)' <=>
              (Wrote(FALSE)' /\ net.syfd.fails = ERROR_THRESHOLD - 1)
       /\ InLog(<<"error">>)' => net'.syfd.m_mode = "Offline"
       /\ (Wrote(TRUE)' \/ net'.syfd.m_mode # net.syfd.m_mode) =>
              net'.syfd.m_errorCount = 0]_vars

C31_Witness ==
    /\ net.syfd.call.name = "timeout"
    /\ InLog(<<"write", FALSE, FALSE>>)
    /\ InLog(<<"error">>)
    /\ InLog(<<"modeChanged", "Offline">>)
    /\ net.syfd.m_mode = "Offline"


(* The handler that ran last switched the protocol from Online to Offline. *)
WentOffline == net.syfd.m_mode = "Online" /\ net'.syfd.m_mode = "Offline"

(* The writes of a datagram with the quit flag in the history. *)
QuitWrites(log) == {i \in 1..Len(log) : log[i][1] = "write" /\ log[i][2]}

TimerStops(log) == {i \in 1..Len(log) : log[i][1] = "timerStop"}

(* C32 as stated: every switch from Online to Offline writes exactly one   *)
(* datagram with the quit flag, before the timer is stopped.               *)
C32_QuitOnEveryOffline ==
    [][WentOffline =>
           /\ Cardinality(QuitWrites(net'.syfd.log)) = 1
           /\ TimerStops(net'.syfd.log) # {}
           /\ \A i \in QuitWrites(net'.syfd.log),
                 j \in TimerStops(net'.syfd.log) : i < j]_vars

(* C32: a switch from Online to Offline asked through setMode or stop      *)
(* writes exactly one datagram with the quit flag, before the timer is     *)
(* stopped, when the datagram of the local user is valid; with no valid    *)
(* datagram, or when the handler of the timer makes the switch (third      *)
(* failed write, invalid datagram), none is written and the timer is       *)
(* stopped; start, finding a stopped protocol Online, sets it Offline and  *)
(* writes no such datagram.                                                *)
C32_QuitOnAskedOffline ==
    [][WentOffline =>
           /\ Cardinality(QuitWrites(net'.syfd.log)) =
                  IF net.syfd.valid
                     /\ net'.syfd.call.name \in {"setMode", "stop"}
                  THEN 1 ELSE 0
           /\ net'.syfd.call.name # "start" =>
                  /\ TimerStops(net'.syfd.log) # {}
                  /\ ~net'.syfd.timer
           /\ \A i \in QuitWrites(net'.syfd.log),
                 j \in TimerStops(net'.syfd.log) : i < j]_vars

C32_Witness ==
    /\ net.syfd.call.name = "setMode"
    /\ net.syfd.m_mode = "Offline"
    /\ net.syfd.m_status = "Started"
    /\ Len(net.syfd.log) >= 3
    /\ net.syfd.log[1] = <<"write", TRUE, TRUE>>
    /\ net.syfd.log[3] = <<"timerStop">>


(* The modeChanged signals in the history. *)
ModeSignals(log) == {i \in 1..Len(log) : log[i][1] = "modeChanged"}

(* C39: a handler that changes the mode (setMode called with emitSignal    *)
(* true, which is the default) emits modeChanged once, with the new mode,  *)
(* also when the write of the quit datagram fails.                         *)
C39_OneModeChanged ==
    [][(/\ net'.syfd.m_mode # net.syfd.m_mode
        /\ net'.syfd.call.name \in {"setMode", "stop", "timeout"}
        /\ net'.syfd.call.name = "setMode" => net'.syfd.call.emitSignal) =>
           /\ Cardinality(ModeSignals(net'.syfd.log)) = 1
           /\ \A i \in ModeSignals(net'.syfd.log) :
                  net'.syfd.log[i][2] = net'.syfd.m_mode]_vars


(* C40: setMode(Online) on a stopped protocol leaves the mode Offline,     *)
(* emits no modeChanged(Online) and has no datagram written.               *)
C40_StoppedStaysOffline ==
    [][(/\ net.syfd.m_status = "Stopped"
        /\ net.syfd.m_mode = "Offline"
        /\ net'.syfd.call = [name |-> "setMode", mode |-> "Online",
                             emitSignal |-> TRUE]) =>
           /\ net'.syfd.m_mode = "Offline"
           /\ ~InLog(<<"modeChanged", "Online">>)'
           /\ ~Wrote(TRUE)' /\ ~Wrote(FALSE)']_vars


(***************************************************************************)
(* The SyfitProtocolClient on its own: the parameters advertised change,   *)
(* the socket connects, fails and receives, the timers fire. The single    *)
(* shot timers of manageError fire in any order with the other events.     *)
(***************************************************************************)
MaxErrors == 20

MaxPending == 2

IconParams ==
    {[addr |-> 1, port |-> 1, hash |-> "h1"],
     [addr |-> 1, port |-> 1, hash |-> "h2"],
     [addr |-> 1, port |-> SYFIT_INVALID_PORT, hash |-> "h1"]}

Headers == {-1, IconLen, ICON_MAX_SIZE_BYTES + 1}

Ubs == {"wrap", "trap"}

(* A handler of the client is entered: the history starts again. *)
IconEnter == [net.syfit EXCEPT !.log = <<>>]

(* The handler returns, the client left as c. *)
IconLeave(c) ==
    /\ ~net.syfit.deleted
    /\ net.syfit.k < MaxErrors
    /\ net.syfit.fresh + net.syfit.stale <= MaxPending
    /\ net' = [net EXCEPT !.syfit = c]
    /\ UNCHANGED <<snd, rcv, wire, eof, env, users>>

(* PeerUser::startSyfitProtocolClient invokes updateAndStart. *)
IconUpdate(params, ub) ==
    IconLeave(I_updateAndStart(IconEnter, params, ub))

(* The connection of the socket is established. *)
IconConnected ==
    /\ net.syfit.sock = "Connecting"
    /\ IconLeave([IconEnter EXCEPT !.sock = "Connected"])

(* The socket emits error: the connection refused or closed by the peer. *)
IconSocketError(ub) ==
    /\ net.syfit.sock \in {"Connecting", "Connected"}
    /\ net.syfit.fresh + net.syfit.stale < MaxPending
    /\ IconLeave(I_manageError([IconEnter EXCEPT !.sock = "Unconnected"],
                               ub))

(* The timeout of m_timerTimeout. *)
IconTimeout(ub) ==
    /\ net.syfit.timer
    /\ net.syfit.fresh + net.syfit.stale < MaxPending
    /\ IconLeave(I_manageError(IconEnter, ub))

(* The socket emits readyRead. *)
IconReadyRead(header, data, good, ub) ==
    /\ net.syfit.sock = "Connected"
    /\ net.syfit.fresh + net.syfit.stale < MaxPending
    /\ IconLeave(I_readData(IconEnter, header, data, good, ub))

(* A single shot timer of manageError fires: startConnection. *)
IconRetry(old, ub) ==
    /\ IF old THEN net.syfit.stale > 0 ELSE net.syfit.fresh > 0
    /\ IconLeave(I_startConnection(
                     IF old THEN [IconEnter EXCEPT !.stale = @ - 1]
                     ELSE [IconEnter EXCEPT !.fresh = @ - 1], ub))

(* PeerUser::stopSyfitProtocolClient: the client is deleted. *)
IconDeleted ==
    IconLeave([IconEnter EXCEPT !.deleted = TRUE, !.timer = FALSE,
                                !.sock = "Unconnected",
                                !.fresh = 0, !.stale = 0])

IconNext ==
    \/ \E params \in IconParams, ub \in Ubs : IconUpdate(params, ub)
    \/ IconConnected
    \/ \E ub \in Ubs : IconSocketError(ub)
    \/ \E ub \in Ubs : IconTimeout(ub)
    \/ \E header \in Headers, data \in 0..IconLen, good \in BOOLEAN,
          ub \in Ubs : IconReadyRead(header, data, good, ub)
    \/ \E old \in BOOLEAN, ub \in Ubs : IconRetry(old, ub)
    \/ IconDeleted

IconSpec == SyfdInit /\ [][IconNext]_vars

RECURSIVE Pow2(_)
Pow2(n) == IF n = 0 THEN 1 ELSE 2 * Pow2(n - 1)

(* The entries of a name in the history of the handler that ran last. *)
IconLog(name) ==
    {i \in 1..Len(net.syfit.log) : net.syfit.log[i][1] = name}

(* C33: a handler in which the request fails (manageError runs: error of   *)
(* the socket, timeout, length above ICON_MAX_SIZE_BYTES, icon refused)    *)
(* sets exactly one single shot timer, and the interval of the one set at  *)
(* the k-th failure in a row is INITIAL_RETRY_TIME * 2^(k-1).              *)
C33_OneRetryDoubling ==
    \A i \in IconLog("manageError") :
        /\ Cardinality(IconLog("manageError")) = 1
        /\ Cardinality(IconLog("retry")) = 1
        /\ \A j \in IconLog("retry") :
               /\ net.syfit.log[j][2] % Pow2(net.syfit.log[i][2] - 1) = 0
               /\ net.syfit.log[j][2] \div Pow2(net.syfit.log[i][2] - 1) =
                      INITIAL_RETRY_TIME


(* The connection attempts and the retries waiting of a client. *)
Attempts(c) ==
    c.fresh + c.stale + (IF c.sock # "Unconnected" THEN 1 ELSE 0)

(* A single shot timer set before the last change of the parameters fires. *)
StaleRetry ==
    /\ net'.syfit.stale = net.syfit.stale - 1
    /\ ~net'.syfit.deleted
    /\ IconLog("startConnection")' # {}

(* The parameters of the client change. *)
ParamsChanged ==
    \/ net'.syfit.m_serverAddress # net.syfit.m_serverAddress
    \/ net'.syfit.m_serverPort # net.syfit.m_serverPort
    \/ net'.syfit.m_expectedHash # net.syfit.m_expectedHash

(* C38: a client never has more than one connection attempt or retry       *)
(* waiting; a change of the address, port or hash sets the retry time back *)
(* to INITIAL_RETRY_TIME and starts the request again; a retry set before  *)
(* the change, when it fires, leaves the request started after the change  *)
(* as it is.                                                               *)
C38_OneRequestAtATime ==
    [][/\ Attempts(net'.syfit) <= 1
       /\ ParamsChanged =>
              /\ net'.syfit.m_retryTime = INITIAL_RETRY_TIME
              /\ net'.syfit.m_serverPort # SYFIT_INVALID_PORT =>
                     net'.syfit.sock = "Connecting"
       /\ StaleRetry =>
              /\ net'.syfit.sock = net.syfit.sock
              /\ net'.syfit.timer = net.syfit.timer
              /\ net'.syfit.m_retryTime = net.syfit.m_retryTime
              /\ net'.syfit.m_buffer = net.syfit.m_buffer
              /\ net'.syfit.fresh = net.syfit.fresh]_vars


(***************************************************************************)
(* The daemon and its network entries: the list of the entries is polled   *)
(* while the interfaces of the machine come and go, the user changes the   *)
(* mode, an instance that failed to initialise is deleted.                 *)
(***************************************************************************)
MaxReads == 3

EntryLists == {<<>>, <<1>>, <<2>>, <<1, 2>>, <<2, 1>>}

(* A handler of the daemon is entered: the history starts again. *)
NetEnter(reads) == [net.daemon EXCEPT !.log = <<>>, !.reads = reads]

(* The handler returns, the daemon left as d. *)
NetLeave(d) ==
    /\ ~net.daemon.hung
    /\ net' = [net EXCEPT !.daemon = [d EXCEPT !.reads = <<>>]]
    /\ UNCHANGED <<snd, rcv, wire, eof, env, users>>

(* The timeout of the timer of the NetworkEntriesList. *)
NetPoll(reads, ok, srv) ==
    NetLeave(N_updateEntries(NetEnter(reads), ok, srv))

(* The user changes the mode, which the tray allows while the list holds   *)
(* an entry.                                                               *)
NetUserMode(mode, srv) ==
    /\ net.daemon.m_entries # <<>>
    /\ NetLeave(N_setMode(NetEnter(<<>>), mode, srv))

(* The deleteLater of an instance that failed to initialise. *)
NetDeleted ==
    /\ net.daemon.inst = "invalid"
    /\ NetLeave([NetEnter(<<>>) EXCEPT !.inst = "none"])

(* The daemon initialised: the first entry of the list in use, the         *)
(* protocol running on it.                                                 *)
NetInit ==
    /\ snd = Sender(<<>>, LOCAL_UUID_R)
    /\ rcv = Receiver
    /\ \E list \in EntryLists \ {<<>>}, mode \in Modes :
           net = [NoNet EXCEPT
                     !.daemon = [NoDaemon EXCEPT
                                    !.m_entries = list, !.current = list[1],
                                    !.inst = "running", !.bound = list[1],
                                    !.addr = list[1], !.mode = mode]]
    /\ wire = [p \in Sides |-> <<>>]
    /\ eof = [p \in Sides |-> "none"]
    /\ env = [established |-> FALSE, events |-> 0, clean |-> TRUE,
              violation |-> FALSE, fault |-> "none", length |-> 0,
              objects |-> NoObjects, call |-> "none", path |-> FilePath]
    /\ users = NoUsers

NetNext ==
    \/ \E reads \in UNION {[1..n -> EntryLists] : n \in 1..MaxReads},
          ok \in BOOLEAN, srv \in BOOLEAN : NetPoll(reads, ok, srv)
    \/ \E mode \in Modes, srv \in BOOLEAN : NetUserMode(mode, srv)
    \/ NetDeleted

NetSpec == NetInit /\ [][NetNext]_vars

(* The entry in use is no more in the list after the handler that ran. *)
EntryLost ==
    /\ net.daemon.current # InvalidEntry
    /\ Contains(net.daemon.m_entries, net.daemon.current)
    /\ ~Contains(net'.daemon.m_entries, net.daemon.current)

(* C34: when the entry in use leaves the list, the protocols bound to it   *)
(* are dropped; with an entry left the daemon uses the first of the list   *)
(* and its discovery protocol runs on it; with none left it is forced      *)
(* offline: no entry, no protocol, the local user Offline with no address. *)
C34_RebindOrOffline ==
    [][EntryLost =>
           /\ net'.daemon.bound # net.daemon.current
           /\ net'.daemon.addr # net.daemon.current
           /\ IF net'.daemon.m_entries # <<>>
              THEN /\ net'.daemon.current = net'.daemon.m_entries[1]
                   /\ net'.daemon.inst = "running"
                   /\ net'.daemon.bound = net'.daemon.current
                   /\ net'.daemon.addr = net'.daemon.current
              ELSE /\ net'.daemon.current = InvalidEntry
                   /\ net'.daemon.inst = "none"
                   /\ net'.daemon.addr = 0
                   /\ net'.daemon.mode = "Offline"]_vars

====
